---- MODULE Spec2Model ----
(***************************************************************************)
(* A model of the capture / identity-resolution / consolidation pipeline   *)
(* and of the batch controller of src/fullupdate.py, and of the artist     *)
(* discography run of src/Artistscrapper.py, which writes the same catalog. *)
(*                                                                         *)
(* Text is modelled as sequences of one-character strings, so that         *)
(* lower-casing, trimming and the cleaning done by generate_song_id are    *)
(* computed, not assumed.  Python dicts are modelled as sequences of       *)
(* entries in insertion order where the order is observable.               *)
(***************************************************************************)
EXTENDS Integers, Sequences, FiniteSets, TLC

\* ------------------------------------------------------------------ bounds
\* Items the browser delivers, over all capture jobs of a behaviour.
MaxItems == 3
\* Capture jobs created (playlists added to a batch, or given to the single
\* playlist mode), over a behaviour.
MaxJobs == 2

\* ------------------------------------------------------------------- text
Upper == <<"A", "B", "C", "K", "N", "O", "R", "S", "T", "U", "W", "X", "I",
           "D", "G", "H", "P", "Y">>
Lowr  == <<"a", "b", "c", "k", "n", "o", "r", "s", "t", "u", "w", "x", "i",
           "d", "g", "h", "p", "y">>
Digits == {"0", "1", "2", "3", "4", "5", "6", "7", "8", "9"}

\* str.lower(), one character
LowerChar(c) ==
    IF \E i \in DOMAIN Upper : Upper[i] = c
    THEN Lowr[CHOOSE i \in DOMAIN Upper : Upper[i] = c]
    ELSE c

\* str.lower()
Lower(s) == [i \in DOMAIN s |-> LowerChar(s[i])]

RECURSIVE LStrip(_)
LStrip(s) ==
    IF s # <<>> /\ Head(s) = " " THEN LStrip(Tail(s)) ELSE s

RECURSIVE RStrip(_)
RStrip(s) ==
    IF s # <<>> /\ s[Len(s)] = " " THEN RStrip(SubSeq(s, 1, Len(s) - 1)) ELSE s

\* str.strip()
Strip(s) == RStrip(LStrip(s))

\* the characters re.sub(r'[^a-z0-9_]', '', ...) keeps
IsIdChar(c) ==
    \/ \E i \in DOMAIN Lowr : Lowr[i] = c
    \/ c \in Digits
    \/ c = "_"

\* hashlib.md5(...).hexdigest()[:12]: the model keeps the digest's argument,
\* i.e. takes the truncated digest to be injective on the strings of the model
Md5Hex12(s) == s

\* a variant without the lower-casing
generate_song_id_nolower(track_name, artists) ==
    <<"song_">> \o Md5Hex12(SelectSeq(track_name \o <<"_">> \o artists, IsIdChar))

\* SmartSongManager.generate_song_id
generate_song_id(track_name, artists) ==
    <<"song_">> \o Md5Hex12(SelectSeq(Lower(track_name \o <<"_">> \o artists), IsIdChar))

\* f"{track_name}|{artists}" of the lower-cased, stripped fields
NameArtistKey(track_name, artists_string) ==
    Lower(Strip(track_name)) \o <<"|">> \o Lower(Strip(artists_string))

\* safe_get(..., default=''): a missing, None or blank value gives the default ''
SafeGetStr(v) == IF Strip(v) = <<>> THEN <<>> ELSE v

RECURSIVE ArtistNames(_, _)
\* the loop over artists_data: stripped profile names, empty and repeated
\* names dropped, first occurrence kept
ArtistNames(artists, acc) ==
    IF artists = <<>> THEN acc
    ELSE LET artist_name == Strip(SafeGetStr(Head(artists)))
         IN  ArtistNames(Tail(artists),
                         IF artist_name # <<>> /\ \A i \in DOMAIN acc : acc[i] # artist_name
                         THEN Append(acc, artist_name) ELSE acc)

RECURSIVE Join(_)
\* ', '.join(names)
Join(names) ==
    IF names = <<>> THEN <<>>
    ELSE IF Len(names) = 1 THEN names[1]
    ELSE names[1] \o <<",", " ">> \o Join(Tail(names))

UnknownArtist == <<"U","n","k","n","o","w","n"," ","A","r","t","i","s","t">>
PlaceholderTracks == { <<"u","n","k","n","o","w","n"," ","t","r","a","c","k">>,
                       <<"u","n","k","n","o","w","n">>, <<>> }
PlaceholderArtists == { <<"u","n","k","n","o","w","n"," ","a","r","t","i","s","t">>,
                        <<"u","n","k","n","o","w","n">>, <<>> }

\* ', '.join(artist_names) if artist_names else 'Unknown Artist'
ArtistsString(artists) ==
    LET names == ArtistNames(artists, <<>>)
    IN  IF names # <<>> THEN Join(names) ELSE UnknownArtist

MIN_TRACK_NAME_LENGTH == 1
MIN_ARTIST_NAME_LENGTH == 1

ReasonTrackEmpty == "Track name is empty or too short"
ReasonArtistEmpty == "Artist name is empty or too short"
ReasonTrackPlaceholder == "Track name is placeholder value"
ReasonArtistPlaceholder == "Artist name is placeholder value"

\* a variant that compares with the placeholder values as written
validate_track_data_casesens(track_info) ==
    LET track_name == Strip(track_info.track_name)
        artists_string == Strip(track_info.artists_string)
    IN  IF track_name = <<>> \/ Len(track_name) < MIN_TRACK_NAME_LENGTH
        THEN ReasonTrackEmpty
        ELSE IF artists_string = <<>> \/ Len(artists_string) < MIN_ARTIST_NAME_LENGTH
        THEN ReasonArtistEmpty
        ELSE IF track_name \in PlaceholderTracks
        THEN ReasonTrackPlaceholder
        ELSE IF artists_string \in PlaceholderArtists
        THEN ReasonArtistPlaceholder
        ELSE "Valid"

\* a variant that accepts every track
validate_track_data_lenient(track_info) == "Valid"

\* validate_track_data: the reason of the rejection, or "Valid"
validate_track_data(track_info) ==
    LET track_name == Strip(track_info.track_name)
        artists_string == Strip(track_info.artists_string)
    IN  IF track_name = <<>> \/ Len(track_name) < MIN_TRACK_NAME_LENGTH
        THEN ReasonTrackEmpty
        ELSE IF artists_string = <<>> \/ Len(artists_string) < MIN_ARTIST_NAME_LENGTH
        THEN ReasonArtistEmpty
        ELSE IF Lower(track_name) \in PlaceholderTracks
        THEN ReasonTrackPlaceholder
        ELSE IF Lower(artists_string) \in PlaceholderArtists
        THEN ReasonArtistPlaceholder
        ELSE "Valid"

\* Config.SKIP_INVALID_TRACKS / Config.ENABLE_SMART_DEDUPLICATION
SKIP_INVALID_TRACKS == TRUE
ENABLE_SMART_DEDUPLICATION == TRUE

\* --------------------------------------------------------- catalog tables
\* A songs table (a Python dict song_id -> song_info) is a sequence of
\* song_info records in insertion order.
NoSong == <<>>

HasSong(songs, song_id) == \E i \in DOMAIN songs : songs[i].song_id = song_id

SongIndex(songs, song_id) == CHOOSE i \in DOMAIN songs : songs[i].song_id = song_id

GetSong(songs, song_id) == songs[SongIndex(songs, song_id)]

InSeq(e, seq) == \E i \in DOMAIN seq : seq[i] = e

\* a variant: the table written holds the new entry alone
DictPut_alone(d, k, v) == [ kk \in {k} |-> v ]

\* dict assignment d[k] = v on a function whose domain is a set of keys
DictPut(d, k, v) == [ kk \in DOMAIN d \cup {k} |-> IF kk = k THEN v ELSE d[kk] ]

\* the last song of the table, in insertion order, that satisfies the test:
\* a later dict assignment under the same key replaces an earlier one
LastWith(songs, Test(_)) ==
    LET hits == { i \in DOMAIN songs : Test(songs[i]) }
    IN  songs[CHOOSE i \in hits : \A j \in hits : j <= i]

SongUriOk(song) == song.metadata.track_uri # ""

SongKeyOk(song) ==
    /\ Lower(Strip(song.metadata.track_name)) # <<>>
    /\ Lower(Strip(song.metadata.artists_string)) # <<>>

SongKey(song) == NameArtistKey(song.metadata.track_name, song.metadata.artists_string)

\* a variant that reads what the file held before it was damaged
ReadTable_raw(table, name, bad, default) == table

\* json.load of a catalog table inside try/except: the table of the file, or
\* what the caller starts from when the file does not parse
ReadTable(table, name, bad, default) == IF name \in bad THEN default ELSE table

\* SmartSongManager.load_existing_database: the songs of the table on disk
\* and the two lookup tables built from their metadata
load_existing_database(db) ==
    LET uris == { db[i].metadata.track_uri : i \in { j \in DOMAIN db : SongUriOk(db[j]) } }
        keys == { SongKey(db[i]) : i \in { j \in DOMAIN db : SongKeyOk(db[j]) } }
        ByUri(u) == LET T(song) == SongUriOk(song) /\ song.metadata.track_uri = u
                    IN  LastWith(db, T).song_id
        ByKey(k) == LET T(song) == SongKeyOk(song) /\ SongKey(song) = k
                    IN  LastWith(db, T).song_id
    IN  [ existing_songs |-> db,
          uri_to_song_id |-> [ u \in uris |-> ByUri(u) ],
          name_artist_to_song_id |-> [ k \in keys |-> ByKey(k) ] ]

\* an empty Python dict
EmptyDict == [ k \in {} |-> NoSong ]

EmptyManager == [ existing_songs |-> <<>>, uri_to_song_id |-> EmptyDict,
                  name_artist_to_song_id |-> EmptyDict ]

\* SmartSongManager.find_existing_song: the song_id found, or NoSong for None
find_existing_song(mgr, track_info) ==
    LET track_uri == track_info.track_uri
        track_name == Lower(Strip(track_info.track_name))
        artists == Lower(Strip(track_info.artists_string))
        key == track_name \o <<"|">> \o artists
    IN  IF track_uri # "" /\ track_uri \in DOMAIN mgr.uri_to_song_id
        THEN mgr.uri_to_song_id[track_uri]
        ELSE IF track_name # <<>> /\ artists # <<>> /\ key \in DOMAIN mgr.name_artist_to_song_id
        THEN mgr.name_artist_to_song_id[key]
        ELSE NoSong

\* find_existing_song reads self.existing_songs[song_id] before it returns:
\* an id of a lookup table that is no key of the songs table raises KeyError
FindRaises(mgr, track_info) ==
    LET song_id == find_existing_song(mgr, track_info)
    IN  song_id # NoSong /\ ~HasSong(mgr.existing_songs, song_id)

\* ---------------------------------------------------------- normalisation
\* A raw item of a page: typename is itemV2.__typename, name is data.name,
\* artists are the profile names of data.artists.items, uri is data.uri.
TrackWrapper == "TrackResponseWrapper"

PreliminaryTrackInfo(item) ==
    [ track_name |-> Strip(SafeGetStr(item.name)),
      artists_string |-> ArtistsString(item.artists),
      track_uri |-> item.uri ]

\* what the body of the loop of extract_enhanced_track_info does with one
\* item: "skip" (not a track), "reject" (validation), "error" (an exception)
\* or "track"
ItemOutcome(item, mgr) ==
    IF item.typename # TrackWrapper THEN "skip"
    ELSE IF validate_track_data(PreliminaryTrackInfo(item)) # "Valid" /\ SKIP_INVALID_TRACKS
    THEN "reject"
    ELSE IF ENABLE_SMART_DEDUPLICATION /\ FindRaises(mgr, PreliminaryTrackInfo(item))
    THEN "error"
    ELSE "track"

\* the track_info built for an accepted item
TrackInfo(item, mgr) ==
    LET pre == PreliminaryTrackInfo(item)
        found == IF ENABLE_SMART_DEDUPLICATION THEN find_existing_song(mgr, pre) ELSE NoSong
    IN  [ track_name |-> pre.track_name,
          artists_string |-> pre.artists_string,
          track_uri |-> pre.track_uri,
          song_id |-> IF found # NoSong THEN found
                      ELSE generate_song_id(pre.track_name, pre.artists_string),
          skip_download |-> found # NoSong ]

RECURSIVE extract_enhanced_track_info(_, _)
\* extract_enhanced_track_info: tracks_info, in the order of the items
extract_enhanced_track_info(items, mgr) ==
    IF items = <<>> THEN <<>>
    ELSE LET rest == extract_enhanced_track_info(Tail(items), mgr)
         IN  IF ItemOutcome(Head(items), mgr) = "track"
             THEN <<TrackInfo(Head(items), mgr)>> \o rest
             ELSE rest

RECURSIVE SkippedEntries(_)
\* the entries log_skipped_track appends to skipped_tracks.log
SkippedEntries(items) ==
    IF items = <<>> THEN <<>>
    ELSE LET item == Head(items)
             pre == PreliminaryTrackInfo(item)
             reason == validate_track_data(pre)
         IN  IF item.typename = TrackWrapper /\ reason # "Valid" /\ SKIP_INVALID_TRACKS
             THEN <<[ reason |-> reason, track_name |-> pre.track_name,
                      artists_string |-> pre.artists_string,
                      track_uri |-> pre.track_uri ]>> \o SkippedEntries(Tail(items))
             ELSE SkippedEntries(Tail(items))

\* ---------------------------------------------------------- consolidation
TrackMetadata(track) ==
    [ track_name |-> track.track_name, artists_string |-> track.artists_string,
      track_uri |-> track.track_uri ]

NewSongInfo(playlist_name, track, status) ==
    [ song_id |-> track.song_id, metadata |-> TrackMetadata(track),
      playlists |-> <<playlist_name>>, download_status |-> status ]

\* the lookup tables after a new song was stored
RegisterSong(mgr, track) ==
    LET track_name == Lower(Strip(track.track_name))
        artists == Lower(Strip(track.artists_string))
        key == track_name \o <<"|">> \o artists
        uris == IF track.track_uri # ""
                THEN DictPut(mgr.uri_to_song_id, track.track_uri, track.song_id)
                ELSE mgr.uri_to_song_id
        keys == IF track_name # <<>> /\ artists # <<>>
                THEN DictPut(mgr.name_artist_to_song_id, key, track.song_id)
                ELSE mgr.name_artist_to_song_id
    IN  [ uri_to_song_id |-> uris, name_artist_to_song_id |-> keys ]

\* a variant that appends without the membership test
AddMembership_always(playlists, playlist_name) == Append(playlists, playlist_name)

\* the membership list of an existing song after add_song_to_playlist
AddMembership(playlists, playlist_name) ==
    IF InSeq(playlist_name, playlists) THEN playlists
    ELSE Append(playlists, playlist_name)

\* a variant that stores the metadata of the track in the song found
add_song_to_playlist_overwrite(mgr, playlist_name, track, status) ==
    IF HasSong(mgr.existing_songs, track.song_id)
    THEN LET i == SongIndex(mgr.existing_songs, track.song_id)
         IN  [ mgr EXCEPT !.existing_songs[i].playlists = AddMembership(@, playlist_name),
                          !.existing_songs[i].metadata = TrackMetadata(track) ]
    ELSE [ existing_songs |-> Append(mgr.existing_songs,
                                     NewSongInfo(playlist_name, track, status)),
           uri_to_song_id |-> RegisterSong(mgr, track).uri_to_song_id,
           name_artist_to_song_id |-> RegisterSong(mgr, track).name_artist_to_song_id ]

\* a variant that registers a new song in the lookup tables and does not
\* store it
add_song_to_playlist_nostore(mgr, playlist_name, track, status) ==
    IF HasSong(mgr.existing_songs, track.song_id)
    THEN LET i == SongIndex(mgr.existing_songs, track.song_id)
         IN  [ mgr EXCEPT !.existing_songs[i].playlists =
                              AddMembership(@, playlist_name) ]
    ELSE [ existing_songs |-> mgr.existing_songs,
           uri_to_song_id |-> RegisterSong(mgr, track).uri_to_song_id,
           name_artist_to_song_id |-> RegisterSong(mgr, track).name_artist_to_song_id ]

\* PlaylistConsolidator.add_song_to_playlist, its effect on the song manager
add_song_to_playlist(mgr, playlist_name, track, status) ==
    IF HasSong(mgr.existing_songs, track.song_id)
    THEN LET i == SongIndex(mgr.existing_songs, track.song_id)
         IN  [ mgr EXCEPT !.existing_songs[i].playlists =
                              AddMembership(@, playlist_name) ]
    ELSE [ existing_songs |-> Append(mgr.existing_songs,
                                     NewSongInfo(playlist_name, track, status)),
           uri_to_song_id |-> RegisterSong(mgr, track).uri_to_song_id,
           name_artist_to_song_id |-> RegisterSong(mgr, track).name_artist_to_song_id ]

\* add_song_to_playlist, its effect on self.playlist_songs
AddPlaylistSong(playlist_songs, song_id) ==
    IF InSeq(song_id, playlist_songs) THEN playlist_songs
    ELSE Append(playlist_songs, song_id)

\* a variant: the two tables joined without replacing the entries that have
\* the same id
MergeSongs_concat(disk, mem) == disk \o mem

\* all_songs = existing_songs_db.get('songs', {}).copy(); all_songs.update(...)
MergeSongs(disk, mem) ==
    LET kept == [ i \in DOMAIN disk |->
                    IF HasSong(mem, disk[i].song_id) THEN GetSong(mem, disk[i].song_id)
                    ELSE disk[i] ]
        IsNew(song) == ~HasSong(disk, song.song_id)
    IN  kept \o SelectSeq(mem, IsNew)

\* a variant that leaves the mapping table as it was read
BuildMapping_keep(existing_mapping, all_songs) == existing_mapping

\* all_mappings after the loop over all_songs
BuildMapping(existing_mapping, all_songs) ==
    LET mapped == { all_songs[i].song_id :
                      i \in { j \in DOMAIN all_songs : all_songs[j].playlists # <<>> } }
    IN  [ song_id \in DOMAIN existing_mapping \cup mapped |->
            IF song_id \in mapped THEN GetSong(all_songs, song_id).playlists
            ELSE existing_mapping[song_id] ]


\* ------------------------------------------------------------------ batch
\* a variant that adds the job as one already processed
NewJob_processed(name) ==
    [ name |-> name, status |-> "completed", tracks_count |-> 0,
      success_count |-> 0, error |-> "" ]

NewJob(name) ==
    [ name |-> name, status |-> "pending", tracks_count |-> 0,
      success_count |-> 0, error |-> "" ]

EmptyBatch == [ playlists |-> <<>>, current_playlist_index |-> 0 ]

NoBatchFile == [ exists |-> FALSE, playlists |-> <<>>, current_index |-> 0 ]

\* PlaylistBatch.load_batch_file
load_batch_file(file) ==
    IF file.exists
    THEN [ playlists |-> file.playlists, current_playlist_index |-> file.current_index ]
    ELSE EmptyBatch

\* a variant that writes the job list and a cursor of 0
save_batch_file_nocursor(b) ==
    [ exists |-> TRUE, playlists |-> b.playlists, current_index |-> 0 ]

\* PlaylistBatch.save_batch_file: the file written
save_batch_file(b) ==
    [ exists |-> TRUE, playlists |-> b.playlists, current_index |-> b.current_playlist_index ]

\* a variant of mark_playlist_completed that records no error text
mark_playlist_completed_noerror(b, tracks_count, success_count, error) ==
    IF b.current_playlist_index < Len(b.playlists)
    THEN [ playlists |->
             [ b.playlists EXCEPT ![b.current_playlist_index + 1] =
                 [ @ EXCEPT !.status = IF error = "" THEN "completed" ELSE "failed",
                            !.tracks_count = tracks_count,
                            !.success_count = success_count ] ],
           current_playlist_index |-> b.current_playlist_index + 1 ]
    ELSE b

\* a variant that marks the first job of the list, whatever the cursor
mark_playlist_completed_first(b, tracks_count, success_count, error) ==
    IF b.current_playlist_index < Len(b.playlists)
    THEN [ playlists |->
             [ b.playlists EXCEPT ![1] =
                 [ @ EXCEPT !.status = IF error = "" THEN "completed" ELSE "failed",
                            !.tracks_count = tracks_count,
                            !.success_count = success_count,
                            !.error = error ] ],
           current_playlist_index |-> b.current_playlist_index + 1 ]
    ELSE b

\* a variant that leaves the cursor where it is
mark_playlist_completed_nocursor(b, tracks_count, success_count, error) ==
    IF b.current_playlist_index < Len(b.playlists)
    THEN [ b EXCEPT !.playlists[b.current_playlist_index + 1] =
                       [ @ EXCEPT !.status = IF error = "" THEN "completed" ELSE "failed",
                                  !.tracks_count = tracks_count,
                                  !.success_count = success_count,
                                  !.error = error ] ]
    ELSE b

\* a variant that marks every job completed
mark_playlist_completed_anyerror(b, tracks_count, success_count, error) ==
    IF b.current_playlist_index < Len(b.playlists)
    THEN [ playlists |->
             [ b.playlists EXCEPT ![b.current_playlist_index + 1] =
                 [ @ EXCEPT !.status = "completed",
                            !.tracks_count = tracks_count,
                            !.success_count = success_count,
                            !.error = error ] ],
           current_playlist_index |-> b.current_playlist_index + 1 ]
    ELSE b

\* PlaylistBatch.mark_playlist_completed, its effect on the batch in memory
\* (the list is 0-indexed in the code, 1-indexed here)
mark_playlist_completed(b, tracks_count, success_count, error) ==
    IF b.current_playlist_index < Len(b.playlists)
    THEN [ playlists |->
             [ b.playlists EXCEPT ![b.current_playlist_index + 1] =
                 [ @ EXCEPT !.status = IF error = "" THEN "completed" ELSE "failed",
                            !.tracks_count = tracks_count,
                            !.success_count = success_count,
                            !.error = error ] ],
           current_playlist_index |-> b.current_playlist_index + 1 ]
    ELSE b

\* ------------------------------------------------------------ controller
\* DownloadController.pause / resume / cancel, their effect on the controller
pause(c) == [ c EXCEPT !.paused = TRUE ]

\* a variant of resume that also takes the cancellation back
resume_uncancel(c) == [ paused |-> FALSE, cancelled |-> FALSE ]

resume(c) == [ c EXCEPT !.paused = FALSE ]

cancel(c) == [ c EXCEPT !.cancelled = TRUE ]

\* a variant of the wait of check_pause that does not wait
CheckPauseWaits_never(c) == FALSE

\* DownloadController.check_pause: the condition of its while loop (the
\* caller waits while it holds) and the value it returns when it returns
CheckPauseWaits(c) == c.paused /\ ~c.cancelled

check_pause(c) == ~c.cancelled

\* DownloadController.is_cancelled
is_cancelled(c) == c.cancelled

PAUSE_BETWEEN_PLAYLISTS == TRUE
MAX_RETRIES == 3

\* ------------------------------------------------------------------ state
Procs == {1, 2}

VARIABLES
    songs_db,       \* songs_database.json: the 'songs' table, insertion order
    playlists_db,   \* playlists_database.json: name -> playlist_metadata
    mapping_db,     \* song_playlist_mapping.json: song_id -> playlists
    batch_file,     \* playlist_batch.json
    pc,             \* where each process is
    mgr,            \* SmartSongManager: existing_songs and the two lookup tables
    batch,          \* PlaylistBatch: playlists, current_playlist_index
    run,            \* run_batch_processing_mode: i, download_approval
    controller,     \* DownloadController: paused, cancelled
    glob,           \* module globals: all_playlist_items, seen_requests, stop_capture
    driver,         \* driver.requests of the job's browser
    job,            \* locals of process_single_playlist and its consolidator
    skipped_log,    \* skipped_tracks.log of the job's folder
    unreadable,     \* the catalog tables whose file exists and does not parse
    created,        \* capture jobs created so far
    delivered,      \* items delivered so far, over all jobs
    last_jobs,      \* the last two capture jobs saved: name, items, songs table after
    ingested,       \* << track, playlist name, song id >> of the tracks of the jobs saved
    capture_thread  \* capture_requests: the pass of its loop the thread of a process is in

vars == << songs_db, playlists_db, mapping_db, batch_file, pc, mgr, batch, run,
           controller, glob, driver, job, skipped_log, unreadable, created,
           delivered, last_jobs, ingested, capture_thread >>

disk == << songs_db, playlists_db, mapping_db, unreadable >>

\* no pass of capture_requests is under way
NoThread == [ in_pass |-> FALSE, requests |-> <<>>, i |-> 0 ]

Run0 == [ i |-> 0, download_approval |-> FALSE, mode |-> "none", name |-> "" ]
Controller0 == [ paused |-> FALSE, cancelled |-> FALSE ]
\* seen_order is history: the ids of seen_requests in the order they were added
Glob0 == [ all_playlist_items |-> <<>>, seen_requests |-> {}, stop_capture |-> FALSE,
           seen_order |-> <<>> ]
NoResult == [ error |-> "", tracks_count |-> 0, success_count |-> 0,
              failed_count |-> 0, cancelled_count |-> 0 ]
Job0 == [ playlist_name |-> "", tracks |-> <<>>, pos |-> 0, attempt |-> 0,
          playlist_songs |-> <<>>, playlist_metadata |-> <<>>,
          download_log |-> <<>>, all_songs |-> <<>>,
          successful_downloads |-> 0, failed_downloads |-> 0,
          skipped_downloads |-> 0, existing_reused |-> 0, cancelled_downloads |-> 0,
          result |-> NoResult ]

Init ==
    /\ songs_db = <<>>
    /\ playlists_db = EmptyDict
    /\ mapping_db = EmptyDict
    /\ batch_file = NoBatchFile
    /\ pc = [ s \in Procs |-> "off" ]
    /\ mgr = [ s \in Procs |-> EmptyManager ]
    /\ batch = [ s \in Procs |-> EmptyBatch ]
    /\ run = [ s \in Procs |-> Run0 ]
    /\ controller = [ s \in Procs |-> Controller0 ]
    /\ glob = [ s \in Procs |-> Glob0 ]
    /\ driver = [ s \in Procs |-> <<>> ]
    /\ job = [ s \in Procs |-> Job0 ]
    /\ skipped_log = [ s \in Procs |-> <<>> ]
    /\ unreadable = {}
    /\ created = 0
    /\ delivered = 0
    /\ last_jobs = <<>>
    /\ ingested = {}
    /\ capture_thread = [ s \in Procs |-> NoThread ]

\* SmartSongManager(): the manager a process starts with
LoadSongs == load_existing_database(ReadTable(songs_db, "songs", unreadable, <<>>))

\* the memory of a process that is not running
Forget(s) ==
    /\ pc' = [ pc EXCEPT ![s] = "off" ]
    /\ mgr' = [ mgr EXCEPT ![s] = EmptyManager ]
    /\ batch' = [ batch EXCEPT ![s] = EmptyBatch ]
    /\ run' = [ run EXCEPT ![s] = Run0 ]
    /\ controller' = [ controller EXCEPT ![s] = Controller0 ]
    /\ glob' = [ glob EXCEPT ![s] = Glob0 ]
    /\ driver' = [ driver EXCEPT ![s] = <<>> ]
    /\ job' = [ job EXCEPT ![s] = Job0 ]
    /\ skipped_log' = [ skipped_log EXCEPT ![s] = <<>> ]

RECURSIVE SeqsUpTo(_, _)
\* the sequences over S of length at most n
SeqsUpTo(S, n) ==
    IF n = 0 THEN { <<>> }
    ELSE LET shorter == SeqsUpTo(S, n - 1)
         IN  shorter \cup { Append(q, e) : q \in shorter, e \in S }

\* run_batch_processing_mode up to its loop: setup_batch_processing (the
\* user's choice at the menu and the playlists the user adds), the song
\* manager, the approval of downloads, the controller
StartBatch(s, names, approvals) ==
    /\ pc[s] = "off"
    /\ LET loaded == load_batch_file(batch_file)
       IN  \E choice \in IF loaded.playlists # <<>> THEN {"1", "2", "3"} ELSE {"2"} :
           \E added \in SeqsUpTo(names, MaxJobs - created) :
             LET base == IF choice = "3" THEN EmptyBatch ELSE loaded
                 b == IF choice = "1" THEN loaded
                      ELSE [ base EXCEPT !.playlists =
                               @ \o [ k \in DOMAIN added |-> NewJob(added[k]) ] ]
                 pending == { k \in DOMAIN b.playlists : b.playlists[k].status = "pending" }
             IN  /\ choice = "1" => added = <<>>
                 /\ created' = created + Len(added)
                 /\ batch_file' = IF choice = "1" \/ b.playlists = <<>>
                                  THEN batch_file ELSE save_batch_file(b)
                 /\ IF b.playlists = <<>> \/ pending = {}
                    THEN /\ Forget(s)
                    ELSE /\ \E approval \in approvals :
                              run' = [ run EXCEPT ![s] =
                                         [ i |-> b.current_playlist_index,
                                           download_approval |-> approval,
                                           mode |-> "batch", name |-> "" ] ]
                         /\ pc' = [ pc EXCEPT ![s] = "loop" ]
                         /\ mgr' = [ mgr EXCEPT ![s] = LoadSongs ]
                         /\ batch' = [ batch EXCEPT ![s] = b ]
                         /\ controller' = [ controller EXCEPT ![s] = Controller0 ]
                         /\ UNCHANGED << glob, driver, job, skipped_log >>
    /\ UNCHANGED << disk, delivered, last_jobs, ingested >>
    \* the threads of an earlier run of the program ended with it
    /\ capture_thread' = [ capture_thread EXCEPT ![s] = NoThread ]

\* the batch loop is left (break, or the range is exhausted): the summary is
\* written and the program ends
ExitProgram(s) == Forget(s)

\* mark_playlist_completed on the batch of s, with the batch file it writes
MarkJob(s, tracks_count, success_count, error) ==
    /\ batch' = [ batch EXCEPT ![s] =
                    mark_playlist_completed(@, tracks_count, success_count, error) ]
    /\ batch_file' = IF batch[s].current_playlist_index < Len(batch[s].playlists)
                     THEN save_batch_file(batch'[s])
                     ELSE batch_file

\* one pass through the head of the loop of run_batch_processing_mode, up to
\* the call of process_single_playlist.  check_pause blocks while the
\* controller is paused and not cancelled.
LoopTop(s) ==
    /\ pc[s] = "loop"
    /\ LET i == run[s].i
           b == batch[s]
       IN  IF i >= Len(b.playlists) \/ controller[s].cancelled
           THEN ExitProgram(s) /\ UNCHANGED << batch_file >>
           ELSE IF b.playlists[i + 1].status # "pending"
           THEN /\ run' = [ run EXCEPT ![s].i = i + 1 ]
                /\ UNCHANGED << pc, mgr, batch, controller, glob, driver, job,
                                skipped_log, batch_file >>
           ELSE /\ ~CheckPauseWaits(controller[s])
                /\ \E user_input \in IF PAUSE_BETWEEN_PLAYLISTS
                                         /\ i > b.current_playlist_index
                                      THEN {"", "skip"} ELSE {""} :
                     IF user_input = "skip"
                     THEN /\ MarkJob(s, 0, 0, "Skipped by user")
                          /\ run' = [ run EXCEPT ![s].i = i + 1 ]
                          /\ UNCHANGED << pc, mgr, controller, glob, driver, job,
                                          skipped_log >>
                     ELSE /\ pc' = [ pc EXCEPT ![s] = "enter" ]
                          /\ UNCHANGED << mgr, batch, run, controller, glob, driver,
                                          job, skipped_log, batch_file >>
    /\ UNCHANGED << disk, created, delivered, last_jobs, ingested,
                    capture_thread >>

\* the name of the playlist process_single_playlist was called with
CurrentPlaylistName(s) ==
    IF run[s].mode = "batch" THEN batch[s].playlists[run[s].i + 1].name
    ELSE run[s].name

\* process_single_playlist, its head: the globals are reset, and the job
\* ends at once when the controller is cancelled; else the browser is
\* opened and the capture thread started
EnterJob(s) ==
    /\ pc[s] = "enter"
    /\ glob' = [ glob EXCEPT ![s] = Glob0 ]
    /\ driver' = [ driver EXCEPT ![s] = <<>> ]
    /\ skipped_log' = [ skipped_log EXCEPT ![s] = <<>> ]
    /\ IF controller[s].cancelled
       THEN /\ job' = [ job EXCEPT ![s] =
                          [ Job0 EXCEPT !.playlist_name = CurrentPlaylistName(s),
                                        !.result.error = "Batch process cancelled" ] ]
            /\ pc' = [ pc EXCEPT ![s] = "returned" ]
       ELSE /\ job' = [ job EXCEPT ![s] =
                          [ Job0 EXCEPT !.playlist_name = CurrentPlaylistName(s) ] ]
            /\ pc' = [ pc EXCEPT ![s] = "capture" ]
    /\ UNCHANGED << disk, batch_file, mgr, batch, run, controller, created, delivered,
                    last_jobs, ingested,
                    capture_thread >>

\* what a request counts for in `delivered`: its items, or one when it has none
Cost(r) == IF r.items = <<>> THEN 1 ELSE Len(r.items)

\* the browser makes a request (the page scrolls); it is listed in
\* driver.requests, its place in the list standing for request.id.  With
\* `paced`, a request is made only while the capture runs, after the capture
\* thread has seen the earlier ones, and on a page that is not a replay.
Deliver(s, requests, paced) ==
    /\ pc[s] = "capture"
    /\ paced => /\ ~glob[s].stop_capture
                /\ glob[s].seen_requests = DOMAIN driver[s]
                /\ \A k \in DOMAIN driver[s] : driver[s][k] \in requests
    /\ \E r \in requests :
         /\ delivered + Cost(r) <= MaxItems
         /\ delivered' = delivered + Cost(r)
         /\ driver' = [ driver EXCEPT ![s] = Append(@, r) ]
    /\ UNCHANGED << disk, batch_file, pc, mgr, batch, run, controller, glob, job,
                    skipped_log, created, last_jobs, ingested,
                    capture_thread >>

\* the playlist page shows what it showed to the last job saved: the browser
\* makes one request whose response is a page of that job's items
Replay(s) ==
    /\ pc[s] = "capture"
    /\ ~glob[s].stop_capture
    /\ driver[s] = <<>>
    /\ last_jobs # <<>>
    /\ driver' = [ driver EXCEPT ![s] =
                     << [ url_target |-> TRUE, has_response |-> TRUE, body |-> "page",
                          items |-> last_jobs[Len(last_jobs)].items ] >> ]
    /\ UNCHANGED << disk, batch_file, pc, mgr, batch, run, controller, glob, job,
                    skipped_log, created, delivered, last_jobs, ingested,
                    capture_thread >>

\* a response arrives for a request that had none
Respond(s) ==
    /\ pc[s] = "capture"
    /\ \E id \in DOMAIN driver[s] :
         /\ ~driver[s][id].has_response
         /\ driver' = [ driver EXCEPT ![s][id].has_response = TRUE ]
    /\ UNCHANGED << disk, batch_file, pc, mgr, batch, run, controller, glob, job,
                    skipped_log, created, delivered, last_jobs, ingested,
                    capture_thread >>

\* is_playlist_items_response of the decoded, parsed body: the body is
\* "page" (JSON of a PlaylistItemsPage), "json" (other JSON) or "garbage"
\* (decode_response_body or parse_json_response fails and a text is left)
IsPlaylistItemsResponse(r) == r.body = "page"

\* extract_items_from_response, for the responses capture_requests calls it on
ItemsInResponse(r) == IF IsPlaylistItemsResponse(r) THEN r.items ELSE <<>>

\* a variant of the test that does not look at seen_requests
ShouldProcess_noseen(request, id, seen) ==
    /\ request.has_response
    /\ request.url_target

\* a variant that marks a request seen only when its body is a page
MarkSeen_onsuccess(seen, id, request) ==
    IF request.body = "page" THEN seen \cup {id} ELSE seen

\* a variant that puts the items of a page before the items collected
ExtendItems_prepend(all_items, items) == items \o all_items

\* the test of capture_requests on one request of driver.requests
ShouldProcess(request, id, seen) ==
    /\ request.has_response
    /\ id \notin seen
    /\ request.url_target

\* seen_requests.add(request.id), before the body is decoded
MarkSeen(seen, id, request) == seen \cup {id}

\* all_playlist_items.extend(items_in_response)
ExtendItems(all_items, items) == all_items \o items

\* the body of the loop of capture_requests for a request that passes the test
ProcessRequest(g, id, request) ==
    [ g EXCEPT !.seen_requests = MarkSeen(@, id, request),
               !.all_playlist_items = ExtendItems(@, ItemsInResponse(request)),
               !.seen_order = Append(@, id) ]

RECURSIVE CapturePass(_, _, _)
\* the for loop of capture_requests over the list driver.requests returned,
\* from the request `id` on
CapturePass(requests, id, g) ==
    IF id > Len(requests) THEN g
    ELSE CapturePass(requests, id + 1,
                     IF ShouldProcess(requests[id], id, g.seen_requests)
                     THEN ProcessRequest(g, id, requests[id]) ELSE g)

\* capture_requests, one pass of its while loop that finds a request to
\* process (a pass that finds none changes nothing)
CapturePoll(s) ==
    /\ pc[s] = "capture"
    /\ ~glob[s].stop_capture
    /\ \E id \in DOMAIN driver[s] :
         ShouldProcess(driver[s][id], id, glob[s].seen_requests)
    /\ glob' = [ glob EXCEPT ![s] = CapturePass(driver[s], 1, @) ]
    /\ UNCHANGED << disk, batch_file, pc, mgr, batch, run, controller, driver, job,
                    skipped_log, created, delivered, last_jobs, ingested,
                    capture_thread >>

\* listen_for_commands: the user types 'stop'.  With `patient`, the user
\* types it only after the capture thread has seen every request made.
StopCapture(s, patient) ==
    /\ pc[s] = "capture"
    /\ ~glob[s].stop_capture
    /\ patient => glob[s].seen_requests = DOMAIN driver[s]
    /\ glob' = [ glob EXCEPT ![s].stop_capture = TRUE ]
    /\ UNCHANGED << disk, batch_file, pc, mgr, batch, run, controller, driver, job,
                    skipped_log, created, delivered, last_jobs, ingested,
                    capture_thread >>

\* process_single_playlist from the end of its wait for the capture to the
\* start of the download loop: the checks of the captured items, phase 2
\* (extract_enhanced_track_info) and the new consolidator
EndCapture(s) ==
    /\ pc[s] = "capture"
    /\ glob[s].stop_capture \/ controller[s].cancelled
    /\ driver' = [ driver EXCEPT ![s] = <<>> ]
    /\ LET items == glob[s].all_playlist_items
           tracks == extract_enhanced_track_info(items, mgr[s])
       IN  IF controller[s].cancelled
           THEN /\ job' = [ job EXCEPT ![s].result.error = "Batch process cancelled" ]
                /\ pc' = [ pc EXCEPT ![s] = "returned" ]
                /\ UNCHANGED skipped_log
           ELSE IF items = <<>>
           THEN /\ job' = [ job EXCEPT ![s].result.error = "No playlist items captured" ]
                /\ pc' = [ pc EXCEPT ![s] = "returned" ]
                /\ UNCHANGED skipped_log
           ELSE IF tracks = <<>>
           THEN /\ job' = [ job EXCEPT ![s].result.error = "No valid tracks extracted" ]
                /\ pc' = [ pc EXCEPT ![s] = "returned" ]
                /\ skipped_log' = [ skipped_log EXCEPT ![s] = @ \o SkippedEntries(items) ]
           ELSE /\ job' = [ job EXCEPT ![s].tracks = tracks, ![s].pos = 1 ]
                /\ pc' = [ pc EXCEPT ![s] = "download" ]
                /\ skipped_log' = [ skipped_log EXCEPT ![s] = @ \o SkippedEntries(items) ]
    /\ UNCHANGED << disk, batch_file, mgr, batch, run, controller, glob,
                    created, delivered, last_jobs, ingested,
                    capture_thread >>
RECURSIVE ThreadPass(_, _, _, _)
\* the for loop of capture_requests run by a thread over the list `requests`
\* it took from its own driver, on the globals `g` bound when it runs.  The
\* thread of the job the globals belong to (`own`) sees the request ids the
\* job knows; the ids of the requests of an earlier job's browser are other
\* ids (written 0 - k).
ThreadPass(requests, k, g, own) ==
    IF k > Len(requests) THEN g
    ELSE LET id == IF own THEN k ELSE 0 - k
         IN  ThreadPass(requests, k + 1,
                        IF ShouldProcess(requests[k], id, g.seen_requests)
                        THEN ProcessRequest(g, id, requests[k]) ELSE g,
                        own)

\* capture_requests, the head of a pass: the thread finds stop_capture
\* false and takes the list driver.requests.  The thread is not joined, so
\* the pass may last longer than the job waits for it.
PassBegins(s) ==
    /\ pc[s] = "capture"
    /\ ~glob[s].stop_capture
    /\ ~capture_thread[s].in_pass
    /\ driver[s] # <<>>
    /\ capture_thread' = [ capture_thread EXCEPT ![s] =
                             [ in_pass |-> TRUE, requests |-> driver[s],
                               i |-> run[s].i ] ]
    /\ UNCHANGED << disk, batch_file, pc, mgr, batch, run, controller, glob, driver,
                    job, skipped_log, created, delivered, last_jobs, ingested >>

\* capture_requests, the body of the pass begun: each request of the list is
\* tested against, and added to, the seen_requests and all_playlist_items
\* the module has when the statement runs, which are those of the job the
\* process is in
PassEnds(s) ==
    /\ capture_thread[s].in_pass
    /\ pc[s] \in { "capture", "download", "dl_start", "dl_attempt", "dl_fetch",
                   "phase4", "save_playlists", "save_mapping", "returned" }
    /\ glob' = [ glob EXCEPT ![s] =
                   ThreadPass(capture_thread[s].requests, 1, @,
                              capture_thread[s].i = run[s].i) ]
    /\ capture_thread' = [ capture_thread EXCEPT ![s] = NoThread ]
    /\ UNCHANGED << disk, batch_file, pc, mgr, batch, run, controller, driver, job,
                    skipped_log, created, delivered, last_jobs, ingested >>

\* the body of the download loop from download_log.append(result) on:
\* add_song_to_playlist, the counters, and the break on a cancelled result.
\* `reused` is what the branch that built the result already added to
\* existing_reused.
Record(s, status, reused) ==
    LET j == job[s]
        track == j.tracks[j.pos]
        counted == [ j EXCEPT
            !.download_log = Append(@, [ song_id |-> track.song_id, status |-> status ]),
            !.playlist_songs = AddPlaylistSong(@, track.song_id),
            !.attempt = 0,
            !.successful_downloads = IF status = "success" THEN @ + 1 ELSE @,
            !.existing_reused = IF status = "existing" THEN @ + reused + 1
                                ELSE @ + reused,
            !.skipped_downloads = IF status = "skipped" THEN @ + 1 ELSE @,
            !.cancelled_downloads = IF status = "cancelled" THEN @ + 1 ELSE @,
            !.failed_downloads =
                IF status \notin {"success", "existing", "skipped", "cancelled"}
                THEN @ + 1 ELSE @ ]
    IN  /\ mgr' = [ mgr EXCEPT ![s] =
                      add_song_to_playlist(@, j.playlist_name, track, status) ]
        /\ IF status = "cancelled"
           THEN /\ job' = [ job EXCEPT ![s] = counted ]
                /\ pc' = [ pc EXCEPT ![s] = "phase4" ]
           ELSE /\ job' = [ job EXCEPT ![s] = [ counted EXCEPT !.pos = @ + 1 ] ]
                /\ pc' = [ pc EXCEPT ![s] = "download" ]

\* the head of one iteration of the download loop: the cancellation check,
\* check_pause, and the result of a track that needs no download
DownloadTop(s) ==
    /\ pc[s] = "download"
    /\ LET j == job[s]
       IN  IF j.pos > Len(j.tracks) \/ controller[s].cancelled
           THEN /\ pc' = [ pc EXCEPT ![s] = "phase4" ]
                /\ UNCHANGED << mgr, job >>
           ELSE /\ ~CheckPauseWaits(controller[s])
                /\ IF j.tracks[j.pos].skip_download
                   THEN Record(s, "existing", 1)
                   ELSE IF run[s].download_approval
                   THEN /\ pc' = [ pc EXCEPT ![s] = "dl_start" ]
                        /\ UNCHANGED << mgr, job >>
                   ELSE Record(s, "skipped", 0)
    /\ UNCHANGED << disk, batch_file, batch, run, controller, glob, driver,
                    skipped_log, created, delivered, last_jobs, ingested,
                    capture_thread >>
\* search_and_download_audio_smart, its first check_pause
DownloadStart(s) ==
    /\ pc[s] = "dl_start"
    /\ ~CheckPauseWaits(controller[s])
    /\ IF ~check_pause(controller[s])
       THEN Record(s, "cancelled", 0)
       ELSE /\ pc' = [ pc EXCEPT ![s] = "dl_attempt" ]
            /\ UNCHANGED << mgr, job >>
    /\ UNCHANGED << disk, batch_file, batch, run, controller, glob, driver,
                    skipped_log, created, delivered, last_jobs, ingested,
                    capture_thread >>

\* an attempt of the retry loop ended without a file: the next attempt, or
\* the result 'failed' after the last one
AttemptFailed(s) ==
    IF job[s].attempt + 1 < MAX_RETRIES
    THEN /\ job' = [ job EXCEPT ![s].attempt = @ + 1 ]
         /\ pc' = [ pc EXCEPT ![s] = "dl_attempt" ]
         /\ UNCHANGED mgr
    ELSE Record(s, "failed", 0)

\* one attempt of the retry loop, up to the search: check_pause, then
\* ydl.extract_info, which finds a video or does not (or raises)
DownloadAttempt(s, searches) ==
    /\ pc[s] = "dl_attempt"
    /\ ~CheckPauseWaits(controller[s])
    /\ IF ~check_pause(controller[s])
       THEN Record(s, "cancelled", 0)
       ELSE /\ check_pause(controller[s])
            /\ \E found \in searches :
                 IF found
                 THEN /\ pc' = [ pc EXCEPT ![s] = "dl_fetch" ]
                      /\ UNCHANGED << mgr, job >>
                 ELSE AttemptFailed(s)
    /\ UNCHANGED << disk, batch_file, batch, run, controller, glob, driver,
                    skipped_log, created, delivered, last_jobs, ingested,
                    capture_thread >>

\* the rest of the attempt: check_pause, then ydl.download, which leaves the
\* audio file or does not (or raises)
DownloadFetch(s, fetches) ==
    /\ pc[s] = "dl_fetch"
    /\ ~CheckPauseWaits(controller[s])
    /\ IF ~check_pause(controller[s])
       THEN Record(s, "cancelled", 0)
       ELSE /\ check_pause(controller[s])
            /\ \E fetched \in fetches :
                 IF fetched THEN Record(s, "success", 0) ELSE AttemptFailed(s)
    /\ UNCHANGED << disk, batch_file, batch, run, controller, glob, driver,
                    skipped_log, created, delivered, last_jobs, ingested,
                    capture_thread >>

\* PlaylistConsolidator.set_playlist_metadata
set_playlist_metadata(j) ==
    [ name |-> j.playlist_name, total_tracks |-> Len(j.tracks),
      successful_downloads |-> j.successful_downloads,
      songs |-> j.playlist_songs, unique_song_count |-> Len(j.playlist_songs) ]

\* phase 4, first part: set_playlist_metadata, then save_consolidated_metadata
\* rewrites songs_database.json
SaveSongs(s) ==
    /\ pc[s] = "phase4"
    /\ LET existing_songs_db == ReadTable(songs_db, "songs", unreadable, <<>>)
           all_songs == MergeSongs(existing_songs_db, mgr[s].existing_songs)
       IN  /\ songs_db' = all_songs
           /\ unreadable' = unreadable \ {"songs"}
           /\ job' = [ job EXCEPT ![s].playlist_metadata = set_playlist_metadata(job[s]),
                                  ![s].all_songs = all_songs ]
    /\ pc' = [ pc EXCEPT ![s] = "save_playlists" ]
    /\ UNCHANGED << playlists_db, mapping_db, batch_file, mgr, batch, run, controller,
                    glob, driver, skipped_log, created, delivered, last_jobs, ingested,
                    capture_thread >>

\* save_consolidated_metadata rewrites playlists_database.json
SavePlaylists(s) ==
    /\ pc[s] = "save_playlists"
    /\ playlists_db' = DictPut(ReadTable(playlists_db, "playlists", unreadable, EmptyDict),
                               job[s].playlist_name, job[s].playlist_metadata)
    /\ unreadable' = unreadable \ {"playlists"}
    /\ pc' = [ pc EXCEPT ![s] = "save_mapping" ]
    /\ UNCHANGED << songs_db, mapping_db, batch_file, mgr, batch, run, controller,
                    glob, driver, job, skipped_log, created, delivered, last_jobs, ingested,
                    capture_thread >>

\* the last two of a sequence
LastTwo(q) == IF Len(q) <= 2 THEN q ELSE SubSeq(q, Len(q) - 1, Len(q))

\* the download loop ran over every track (it was not left by a break)
LoopComplete(j) == j.pos > Len(j.tracks)

\* save_consolidated_metadata rewrites song_playlist_mapping.json, and
\* process_single_playlist returns its counts
SaveMapping(s) ==
    /\ pc[s] = "save_mapping"
    /\ mapping_db' = BuildMapping(ReadTable(mapping_db, "mapping", unreadable, EmptyDict),
                                  job[s].all_songs)
    /\ unreadable' = unreadable \ {"mapping"}
    /\ job' = [ job EXCEPT
          ![s].all_songs = <<>>,
          ![s].result = [ error |-> "",
                          tracks_count |-> Len(job[s].tracks),
                          success_count |-> job[s].successful_downloads
                                            + job[s].existing_reused,
                          failed_count |-> job[s].failed_downloads,
                          cancelled_count |-> job[s].cancelled_downloads ] ]
    /\ pc' = [ pc EXCEPT ![s] = "returned" ]
    /\ last_jobs' = LastTwo(Append(last_jobs,
                         [ name |-> job[s].playlist_name,
                           items |-> glob[s].all_playlist_items,
                           complete |-> LoopComplete(job[s]),
                           songs |-> songs_db ]))
    /\ ingested' = ingested \cup
                     IF LoopComplete(job[s])
                     THEN { << TrackMetadata(job[s].tracks[k]), job[s].playlist_name,
                               job[s].tracks[k].song_id >> : k \in DOMAIN job[s].tracks }
                     ELSE {}
    /\ UNCHANGED << songs_db, playlists_db, batch_file, mgr, batch, run, controller,
                    glob, driver, skipped_log, created, delivered, capture_thread >>

\* the text of the error process_single_playlist returns for an exception
ErrorProcessing == "Error processing playlist"

\* the places of process_single_playlist inside its try block
InTry == { "capture", "download", "dl_start", "dl_attempt", "dl_fetch", "phase4",
           "save_playlists", "save_mapping" }

\* process_single_playlist, its except branch: a step of the job raises (the
\* browser, the network or a file), and the job returns the error
JobRaises(s) ==
    /\ pc[s] \in InTry
    /\ job' = [ job EXCEPT ![s].result = [ NoResult EXCEPT !.error = ErrorProcessing ] ]
    /\ pc' = [ pc EXCEPT ![s] = "returned" ]
    /\ UNCHANGED << disk, batch_file, mgr, batch, run, controller, glob, driver,
                    skipped_log, created, delivered, last_jobs, ingested,
                    capture_thread >>

\* run_batch_processing_mode after process_single_playlist returned: the job
\* is marked, the batch file written, and the loop goes on or is left
AfterJob(s) ==
    /\ pc[s] = "returned"
    /\ run[s].mode = "batch"
    /\ LET result == job[s].result
           cancelled == result.cancelled_count > 0 \/ controller[s].cancelled
           marked == IF result.error # ""
                     THEN mark_playlist_completed(batch[s], 0, 0, result.error)
                     ELSE mark_playlist_completed(batch[s], result.tracks_count,
                              result.success_count,
                              IF cancelled THEN "Cancelled by user" ELSE "")
       IN  /\ batch_file' = IF batch[s].current_playlist_index < Len(batch[s].playlists)
                            THEN save_batch_file(marked) ELSE batch_file
           /\ IF result.error = "" /\ cancelled
              THEN ExitProgram(s)
              ELSE /\ batch' = [ batch EXCEPT ![s] = marked ]
                   /\ run' = [ run EXCEPT ![s].i = @ + 1 ]
                   /\ pc' = [ pc EXCEPT ![s] = "loop" ]
                   /\ UNCHANGED << mgr, controller, glob, driver, job, skipped_log >>
    /\ UNCHANGED << disk, created, delivered, last_jobs, ingested,
                    capture_thread >>

\* listen_for_download_commands: 'pause', 'resume', 'cancel'
Pause(s) ==
    /\ pc[s] # "off" /\ run[s].mode = "batch"
    /\ ~controller[s].cancelled /\ ~controller[s].paused
    /\ controller' = [ controller EXCEPT ![s] = pause(@) ]
    /\ UNCHANGED << disk, batch_file, pc, mgr, batch, run, glob, driver, job,
                    skipped_log, created, delivered, last_jobs, ingested,
                    capture_thread >>

Resume(s) ==
    /\ pc[s] # "off" /\ run[s].mode = "batch"
    /\ ~controller[s].cancelled /\ controller[s].paused
    /\ controller' = [ controller EXCEPT ![s] = resume(@) ]
    /\ UNCHANGED << disk, batch_file, pc, mgr, batch, run, glob, driver, job,
                    skipped_log, created, delivered, last_jobs, ingested,
                    capture_thread >>

Cancel(s) ==
    /\ pc[s] # "off" /\ run[s].mode = "batch"
    /\ ~controller[s].cancelled
    /\ controller' = [ controller EXCEPT ![s] = cancel(@) ]
    /\ UNCHANGED << disk, batch_file, pc, mgr, batch, run, glob, driver, job,
                    skipped_log, created, delivered, last_jobs, ingested,
                    capture_thread >>

\* the process is killed
Crash(s) ==
    /\ pc[s] # "off"
    /\ Forget(s)
    /\ UNCHANGED << disk, batch_file, created, delivered, last_jobs, ingested,
                    capture_thread >>

\* the file of a catalog table that was written is damaged: it exists and
\* json.load raises on it
Corrupt(tables) ==
    /\ \E t \in tables \ unreadable :
         /\ \/ t = "songs" /\ songs_db # <<>>
            \/ t = "playlists" /\ DOMAIN playlists_db # {}
            \/ t = "mapping" /\ DOMAIN mapping_db # {}
         /\ unreadable' = unreadable \cup {t}
    /\ UNCHANGED << songs_db, playlists_db, mapping_db, batch_file, pc, mgr, batch, run,
                    controller, glob, driver, job, skipped_log, created, delivered,
                    last_jobs, ingested,
                    capture_thread >>

\* run_single_playlist_mode up to the call of process_single_playlist
StartSingle(s, names) ==
    /\ pc[s] = "off"
    /\ created < MaxJobs
    /\ created' = created + 1
    /\ \E name \in names :
         run' = [ run EXCEPT ![s] = [ i |-> 0, download_approval |-> TRUE,
                                      mode |-> "single", name |-> name ] ]
    /\ mgr' = [ mgr EXCEPT ![s] = LoadSongs ]
    /\ controller' = [ controller EXCEPT ![s] = Controller0 ]
    /\ pc' = [ pc EXCEPT ![s] = "enter" ]
    /\ UNCHANGED << disk, batch_file, batch, glob, driver, job, skipped_log,
                    delivered, last_jobs, ingested >>
    \* the threads of an earlier run of the program ended with it
    /\ capture_thread' = [ capture_thread EXCEPT ![s] = NoThread ]

\* run_single_playlist_mode after process_single_playlist returned
FinishSingle(s) ==
    /\ pc[s] = "returned"
    /\ run[s].mode = "single"
    /\ Forget(s)
    /\ UNCHANGED << disk, batch_file, created, delivered, last_jobs, ingested,
                    capture_thread >>

\* ------------------------------------------------- src/Artistscrapper.py
\* safe_get(data, *keys, default=...): the default for a missing or blank value
ArtistSafeGet(v, default) == IF Strip(v) = <<>> THEN default ELSE v

UnknownTrack == <<"U","n","k","n","o","w","n"," ","T","r","a","c","k">>

Discography == <<" ","-"," ","D","i","s","c","o","g","r","a","p","h","y">>

\* SmartSongManager.generate_playlist_id
generate_playlist_id(playlist_name) ==
    <<"playlist_">> \o Md5Hex12(SelectSeq(Lower(playlist_name), IsIdChar))

\* main: the artist name is the profile name of the first artist of the first
\* track captured (the model's tracks all have an artist)
ArtistName(all_artist_tracks) ==
    ArtistSafeGet(all_artist_tracks[1].artists[1], UnknownArtist)

\* process_artist_tracks: the track_info of one track of all_artist_tracks
ArtistTrackInfo(track_data) ==
    [ track_name |-> ArtistSafeGet(track_data.name, UnknownTrack),
      artists_string |->
          Join([ k \in DOMAIN track_data.artists |->
                   ArtistSafeGet(track_data.artists[k], UnknownArtist) ]),
      track_uri |-> track_data.uri ]

\* the song manager of Artistscrapper.py also holds the playlists table
EmptyArtistManager ==
    [ existing_songs |-> <<>>, existing_playlists |-> EmptyDict,
      uri_to_song_id |-> EmptyDict, name_artist_to_song_id |-> EmptyDict ]

\* SmartSongManager.load_existing_databases
load_existing_databases(songs, playlists) ==
    [ existing_songs |-> songs,
      existing_playlists |-> playlists,
      uri_to_song_id |-> load_existing_database(songs).uri_to_song_id,
      name_artist_to_song_id |-> load_existing_database(songs).name_artist_to_song_id ]

\* SmartSongManager.add_playlist_to_song, its effect on existing_songs
add_playlist_to_song(songs, song_id, playlist_id) ==
    IF HasSong(songs, song_id)
    THEN [ songs EXCEPT ![SongIndex(songs, song_id)].playlists =
                            IF InSeq(playlist_id, @) THEN @ ELSE Append(@, playlist_id) ]
    ELSE songs

\* song_manager.existing_songs[song_id] = song_entry
SongPut(songs, entry) ==
    IF HasSong(songs, entry.song_id)
    THEN [ songs EXCEPT ![SongIndex(songs, entry.song_id)] = entry ]
    ELSE Append(songs, entry)

\* the song_entry of a track that find_existing_song did not find
ArtistSongEntry(song_id, track_info, playlist_id) ==
    [ song_id |-> song_id, metadata |-> track_info,
      playlists |-> <<playlist_id>>, download_status |-> "pending" ]

\* process_artist_tracks, the body of its loop for one track.  `st` holds
\* the song manager and the locals song_ids and new_songs_to_download.
ArtistTrackStep(st, track_data, playlist_id) ==
    LET track_info == ArtistTrackInfo(track_data)
        song_id == generate_song_id(track_info.track_name, track_info.artists_string)
        existing_song == find_existing_song(st.mgr, track_info)
    IN  IF FindRaises(st.mgr, track_info) THEN st
        ELSE IF existing_song # NoSong
        THEN [ st EXCEPT
                 !.mgr.existing_songs = add_playlist_to_song(@, existing_song, playlist_id),
                 !.song_ids = Append(@, existing_song) ]
        ELSE [ st EXCEPT
                 !.mgr.existing_songs =
                     SongPut(@, ArtistSongEntry(song_id, track_info, playlist_id)),
                 !.new_songs_to_download = Append(@, song_id),
                 !.song_ids = Append(@, song_id) ]

RECURSIVE ArtistTrackLoop(_, _, _)
\* the loop of process_artist_tracks over all_artist_tracks
ArtistTrackLoop(st, tracks, playlist_id) ==
    IF tracks = <<>> THEN st
    ELSE ArtistTrackLoop(ArtistTrackStep(st, Head(tracks), playlist_id),
                         Tail(tracks), playlist_id)

\* the playlist_entry process_artist_tracks stores
ArtistPlaylistEntry(playlist_name, song_ids) ==
    [ name |-> playlist_name, song_ids |-> song_ids, total_tracks |-> Len(song_ids) ]

\* save_databases, the mapping it builds
ArtistMapping(songs) ==
    [ song_id \in { songs[i].song_id : i \in DOMAIN songs } |->
        GetSong(songs, song_id).playlists ]

\* save_databases: the three tables are written from the song manager
save_databases(m) ==
    /\ songs_db' = m.existing_songs
    /\ playlists_db' = m.existing_playlists
    /\ mapping_db' = ArtistMapping(m.existing_songs)
    /\ unreadable' = {}

\* main of Artistscrapper.py up to the point where the page is open and
\* the interceptors are set
ArtistStart(s) ==
    /\ pc[s] = "off"
    /\ created < MaxJobs
    /\ created' = created + 1
    /\ pc' = [ pc EXCEPT ![s] = "a_capture" ]
    /\ run' = [ run EXCEPT ![s] = [ Run0 EXCEPT !.mode = "artist" ] ]
    /\ UNCHANGED << disk, batch_file, mgr, batch, controller, glob, driver, job,
                    skipped_log, delivered, last_jobs, ingested,
                    capture_thread >>

\* response_interceptor: the tracks of a discography response are appended
\* to all_artist_tracks (glob.all_playlist_items holds this list)
ArtistResponse(s, pages) ==
    /\ pc[s] = "a_capture"
    /\ ~glob[s].stop_capture
    /\ \E r \in pages :
         /\ delivered + Cost(r) <= MaxItems
         /\ delivered' = delivered + Cost(r)
         /\ glob' = [ glob EXCEPT ![s].all_playlist_items =
                        IF r.url_target /\ r.has_response /\ IsPlaylistItemsResponse(r)
                        THEN @ \o r.items ELSE @ ]
    /\ UNCHANGED << disk, batch_file, pc, mgr, batch, run, controller, driver, job,
                    skipped_log, created, last_jobs, ingested,
                    capture_thread >>

\* main: the user presses Enter; without tracks the program ends
ArtistStop(s) ==
    /\ pc[s] = "a_capture"
    /\ IF glob[s].all_playlist_items = <<>>
       THEN Forget(s)
       ELSE /\ glob' = [ glob EXCEPT ![s].stop_capture = TRUE ]
            /\ pc' = [ pc EXCEPT ![s] = "a_load" ]
            /\ UNCHANGED << mgr, batch, run, controller, driver, job, skipped_log >>
    /\ UNCHANGED << disk, batch_file, created, delivered, last_jobs, ingested,
                    capture_thread >>

\* process_artist_tracks: song_manager = SmartSongManager()
ArtistLoad(s) ==
    /\ pc[s] = "a_load"
    /\ mgr' = [ mgr EXCEPT ![s] =
                  load_existing_databases(
                      ReadTable(songs_db, "songs", unreadable, <<>>),
                      ReadTable(playlists_db, "playlists", unreadable, EmptyDict)) ]
    /\ pc' = [ pc EXCEPT ![s] = "a_process" ]
    /\ UNCHANGED << disk, batch_file, batch, run, controller, glob, driver, job,
                    skipped_log, created, delivered, last_jobs, ingested,
                    capture_thread >>

\* process_artist_tracks from its loop to the first save_databases; without
\* new songs the function returns and the program ends
ArtistProcess(s) ==
    /\ pc[s] = "a_process"
    /\ LET tracks == glob[s].all_playlist_items
           playlist_name == ArtistName(tracks) \o Discography
           playlist_id == generate_playlist_id(playlist_name)
           st == ArtistTrackLoop([ mgr |-> mgr[s], song_ids |-> <<>>,
                                   new_songs_to_download |-> <<>> ],
                                 tracks, playlist_id)
           m == [ st.mgr EXCEPT !.existing_playlists =
                    DictPut(@, playlist_id, ArtistPlaylistEntry(playlist_name, st.song_ids)) ]
       IN  /\ save_databases(m)
           /\ IF st.new_songs_to_download = <<>>
              THEN Forget(s)
              ELSE /\ mgr' = [ mgr EXCEPT ![s] = m ]
                   /\ job' = [ job EXCEPT ![s].playlist_name = playlist_id,
                                          ![s].playlist_songs = st.song_ids,
                                          ![s].tracks = st.new_songs_to_download ]
                   /\ pc' = [ pc EXCEPT ![s] = "a_download" ]
                   /\ UNCHANGED << batch, run, controller, glob, driver, skipped_log >>
    /\ UNCHANGED << batch_file, created, delivered, last_jobs, ingested,
                    capture_thread >>

\* process_artist_tracks, the downloads of the new songs (each succeeds or
\* not) and the second save_databases; the program ends
ArtistDownloads(s) ==
    /\ pc[s] = "a_download"
    /\ \E done \in SUBSET { job[s].tracks[k] : k \in DOMAIN job[s].tracks } :
         LET songs == mgr[s].existing_songs
             Downloaded(song) ==
                 IF InSeq(song.song_id, job[s].tracks)
                 THEN [ song EXCEPT !.download_status =
                          IF song.song_id \in done THEN "completed" ELSE "failed" ]
                 ELSE song
         IN  save_databases([ mgr[s] EXCEPT !.existing_songs =
                                [ i \in DOMAIN songs |-> Downloaded(songs[i]) ] ])
    /\ Forget(s)
    /\ UNCHANGED << batch_file, created, delivered, last_jobs, ingested,
                    capture_thread >>

\* ------------------------------------------------------------- inputs
U1 == "spotify:track:1"

RawItem(name, artists, uri) ==
    [ typename |-> TrackWrapper, name |-> name, artists |-> artists, uri |-> uri ]

ItemAbU1 == RawItem(<<"a", "b">>, << <<"x">> >>, U1)
ItemCU1 == RawItem(<<"c">>, << <<"x">> >>, U1)
ItemAb == RawItem(<<"a", "b">>, << <<"x">> >>, "")
ItemABsp == RawItem(<<"A", "b", " ">>, << <<"x">> >>, "")
ItemEmpty == RawItem(<<>>, << <<"x">> >>, "")

CatalogItems == { ItemAbU1, ItemCU1, ItemAb, ItemABsp }

PlaylistNames == { "P1", "P2" }

\* a request to the target endpoint whose response is a page of one item
PageOf(items) ==
    [ url_target |-> TRUE, has_response |-> TRUE, body |-> "page", items |-> items ]

CatalogRequests == { PageOf(<<item>>) : item \in CatalogItems }

ReplayItems == { ItemAbU1, ItemCU1, ItemABsp }

KeyItems == { ItemAb, ItemABsp, ItemAbU1 }

KeyRequests == { PageOf(<<item>>) : item \in KeyItems }

ReplayRequests == { PageOf(<<item>>) : item \in ReplayItems }

ItemBlank == RawItem(<<" ">>, << <<"x">> >>, "")

RejectItems == { ItemEmpty, ItemBlank, ItemAb }

RejectRequests == { PageOf(<<item>>) : item \in RejectItems }

BatchItems == { ItemAb, ItemCU1 }

BatchNames == { "P1" }

BatchRequests == { PageOf(<<item>>) : item \in BatchItems }

\* ------------------------------------------------------- specifications
\* One process at a time runs batches without downloading (the user answers
\* N to the download question), and is started again after it ended.
Next ==
    \/ StartBatch(1, PlaylistNames, {FALSE})
    \/ LoopTop(1)
    \/ EnterJob(1)
    \/ Deliver(1, CatalogRequests, TRUE)
    \/ CapturePoll(1)
    \/ StopCapture(1, TRUE)
    \/ EndCapture(1)
    \/ DownloadTop(1)
    \/ SaveSongs(1)
    \/ SavePlaylists(1)
    \/ SaveMapping(1)
    \/ AfterJob(1)

Spec == Init /\ [][Next]_vars

\* The same, where a job may also capture again the stream of the job saved
\* before it.
NextReplay ==
    \/ StartBatch(1, PlaylistNames, {FALSE})
    \/ LoopTop(1)
    \/ EnterJob(1)
    \/ Deliver(1, ReplayRequests, TRUE)
    \/ Replay(1)
    \/ CapturePoll(1)
    \/ StopCapture(1, TRUE)
    \/ EndCapture(1)
    \/ DownloadTop(1)
    \/ SaveSongs(1)
    \/ SavePlaylists(1)
    \/ SaveMapping(1)
    \/ AfterJob(1)

SpecReplay == Init /\ [][NextReplay]_vars

\* The same as Spec, over pages of items that have one name and artists key.
NextKeys ==
    \/ StartBatch(1, PlaylistNames, {FALSE})
    \/ LoopTop(1)
    \/ EnterJob(1)
    \/ Deliver(1, KeyRequests, TRUE)
    \/ CapturePoll(1)
    \/ StopCapture(1, TRUE)
    \/ EndCapture(1)
    \/ DownloadTop(1)
    \/ SaveSongs(1)
    \/ SavePlaylists(1)
    \/ SaveMapping(1)
    \/ AfterJob(1)

SpecKeys == Init /\ [][NextKeys]_vars

\* The same as Spec, over pages that hold items the validation rejects.
NextReject ==
    \/ StartBatch(1, PlaylistNames, {FALSE})
    \/ LoopTop(1)
    \/ EnterJob(1)
    \/ Deliver(1, RejectRequests, TRUE)
    \/ CapturePoll(1)
    \/ StopCapture(1, TRUE)
    \/ EndCapture(1)
    \/ DownloadTop(1)
    \/ SaveSongs(1)
    \/ SavePlaylists(1)
    \/ SaveMapping(1)
    \/ AfterJob(1)

SpecReject == Init /\ [][NextReject]_vars

\* Items for the validation: names and performers that are empty, blank,
\* placeholder values in several cases, or hold a placeholder value as a part.
NameUnknown == <<"U","n","k","n","o","w","n">>
NameUNKNOWNTRACK == <<" ","U","N","K","N","O","W","N"," ","T","R","A","C","K">>
NameUnknownX == <<"u","n","k","n","o","w","n"," ","x">>
ItemUnknownTrack == RawItem(NameUNKNOWNTRACK, << <<"x">> >>, "")
ItemUnknownX == RawItem(NameUnknownX, << <<"x">> >>, "")
ItemBlankArtist == RawItem(<<"a", "b">>, << <<" ">>, <<>> >>, "")
ItemArtistUNKNOWN == RawItem(<<"a", "b">>, << <<"U","N","K","N","O","W","N">> >>, "")
ItemArtistUnknownAndX == RawItem(<<"a", "b">>, << NameUnknown, <<"x">> >>, "")
ItemEpisode == [ RawItem(<<>>, << >>, "") EXCEPT !.typename = "EpisodeResponseWrapper" ]
GateItems == { ItemAb, ItemBlank, ItemUnknownTrack, ItemUnknownX, ItemBlankArtist,
               ItemArtistUNKNOWN, ItemArtistUnknownAndX, ItemEpisode }
GateRequests == { PageOf(<<item>>) : item \in GateItems }

\* One process runs batches of one playlist name over pages of these items,
\* up to the normalisation of the items of a job: a job without a valid
\* track returns, and the batch goes on.
NextGate ==
    \/ StartBatch(1, BatchNames, {FALSE})
    \/ LoopTop(1)
    \/ EnterJob(1)
    \/ Deliver(1, GateRequests, TRUE)
    \/ CapturePoll(1)
    \/ StopCapture(1, TRUE)
    \/ EndCapture(1)
    \/ AfterJob(1)

SpecGate == Init /\ [][NextGate]_vars

\* One process at a time runs batches without downloading; the process may
\* be killed at any point, and is started again.
NextCrash ==
    \/ StartBatch(1, BatchNames, {FALSE})
    \/ LoopTop(1)
    \/ EnterJob(1)
    \/ Deliver(1, BatchRequests, TRUE)
    \/ CapturePoll(1)
    \/ StopCapture(1, TRUE)
    \/ EndCapture(1)
    \/ DownloadTop(1)
    \/ SaveSongs(1)
    \/ SavePlaylists(1)
    \/ SaveMapping(1)
    \/ AfterJob(1)
    \/ Crash(1)

SpecCrash == Init /\ [][NextCrash]_vars

\* The same, where a job may also capture again the stream of the job saved
\* before it: the playlist page shows to the process started after a kill
\* what it showed to the process killed.
NextResume ==
    \/ StartBatch(1, BatchNames, {FALSE})
    \/ LoopTop(1)
    \/ EnterJob(1)
    \/ Deliver(1, BatchRequests, TRUE)
    \/ Replay(1)
    \/ CapturePoll(1)
    \/ StopCapture(1, TRUE)
    \/ EndCapture(1)
    \/ DownloadTop(1)
    \/ SaveSongs(1)
    \/ SavePlaylists(1)
    \/ SaveMapping(1)
    \/ AfterJob(1)
    \/ Crash(1)

SpecResume == Init /\ [][NextResume]_vars

\* One process at a time runs batches with downloads (the user answers Y),
\* and the user may type 'cancel' at any point.
NextCancel ==
    \/ StartBatch(1, BatchNames, {TRUE})
    \/ LoopTop(1)
    \/ EnterJob(1)
    \/ Deliver(1, BatchRequests, TRUE)
    \/ CapturePoll(1)
    \/ StopCapture(1, TRUE)
    \/ EndCapture(1)
    \/ DownloadTop(1)
    \/ DownloadStart(1)
    \/ DownloadAttempt(1, {TRUE})
    \/ DownloadFetch(1, BOOLEAN)
    \/ SaveSongs(1)
    \/ SavePlaylists(1)
    \/ SaveMapping(1)
    \/ AfterJob(1)
    \/ Cancel(1)

SpecCancel == Init /\ [][NextCancel]_vars

\* One process at a time runs batches of one playlist name with downloads
\* that succeed, and the user may type 'pause', 'resume' and 'cancel' at any
\* point.
NextControl ==
    \/ StartBatch(1, BatchNames, {TRUE})
    \/ LoopTop(1)
    \/ EnterJob(1)
    \/ Deliver(1, BatchRequests, TRUE)
    \/ CapturePoll(1)
    \/ StopCapture(1, TRUE)
    \/ EndCapture(1)
    \/ DownloadTop(1)
    \/ DownloadStart(1)
    \/ DownloadAttempt(1, {TRUE})
    \/ DownloadFetch(1, {TRUE})
    \/ SaveSongs(1)
    \/ SavePlaylists(1)
    \/ SaveMapping(1)
    \/ AfterJob(1)
    \/ Pause(1)
    \/ Resume(1)
    \/ Cancel(1)

SpecControl == Init /\ [][NextControl]_vars

\* the steps of search_and_download_audio_smart for the process s
DownloadWorker(s) ==
    \/ DownloadStart(s)
    \/ DownloadAttempt(s, {TRUE})
    \/ DownloadFetch(s, {TRUE})

\* The same over pages of one track, where the thread in
\* search_and_download_audio_smart goes on running: time.sleep returns in
\* check_pause, and the searches and the downloads end.
NextPause ==
    \/ StartBatch(1, BatchNames, {TRUE})
    \/ LoopTop(1)
    \/ EnterJob(1)
    \/ Deliver(1, { PageOf(<< ItemAb >>) }, TRUE)
    \/ CapturePoll(1)
    \/ StopCapture(1, TRUE)
    \/ EndCapture(1)
    \/ DownloadTop(1)
    \/ DownloadStart(1)
    \/ DownloadAttempt(1, {TRUE})
    \/ DownloadFetch(1, {TRUE})
    \/ SaveSongs(1)
    \/ SavePlaylists(1)
    \/ SaveMapping(1)
    \/ AfterJob(1)
    \/ Pause(1)
    \/ Resume(1)
    \/ Cancel(1)

SpecPauseFair == Init /\ [][NextPause]_vars /\ WF_vars(DownloadWorker(1))

\* One process at a time runs batches of one playlist name without
\* downloading; a job may raise, the user may type 'cancel' or skip a job, and
\* the process may be killed at any point and started again.
JobsRequests == { PageOf(<< ItemAb >>) }

NextJobs ==
    \/ StartBatch(1, BatchNames, {FALSE})
    \/ LoopTop(1)
    \/ EnterJob(1)
    \/ Deliver(1, JobsRequests, TRUE)
    \/ CapturePoll(1)
    \/ StopCapture(1, TRUE)
    \/ EndCapture(1)
    \/ DownloadTop(1)
    \/ SaveSongs(1)
    \/ SavePlaylists(1)
    \/ SaveMapping(1)
    \/ AfterJob(1)
    \/ JobRaises(1)
    \/ Cancel(1)
    \/ Crash(1)

SpecJobs == Init /\ [][NextJobs]_vars

\* Two processes run the single playlist mode, their steps interleaved; the
\* searches and the downloads succeed.
NextTwo ==
    \E s \in Procs :
        \/ StartSingle(s, PlaylistNames)
        \/ EnterJob(s)
        \/ Deliver(s, BatchRequests, TRUE)
        \/ CapturePoll(s)
        \/ StopCapture(s, TRUE)
        \/ EndCapture(s)
        \/ DownloadTop(s)
        \/ DownloadStart(s)
        \/ DownloadAttempt(s, {TRUE})
        \/ DownloadFetch(s, {TRUE})
        \/ SaveSongs(s)
        \/ SavePlaylists(s)
        \/ SaveMapping(s)
        \/ FinishSingle(s)

SpecTwo == Init /\ [][NextTwo]_vars

\* The requests of a capture: pages of one and of two items, a page whose
\* response comes late, a response that does not decode, JSON that is not a
\* PlaylistItemsPage, and a request to another URL.
PageAb == PageOf(<< ItemAb >>)
PagePair == PageOf(<< ItemCU1, ItemAb >>)
PageLate == [ PageOf(<< ItemAb >>) EXCEPT !.has_response = FALSE ]
Garbage == [ url_target |-> TRUE, has_response |-> TRUE, body |-> "garbage",
             items |-> <<>> ]
OtherJson == [ url_target |-> TRUE, has_response |-> TRUE, body |-> "json",
               items |-> << ItemAb >> ]
OtherUrl == [ url_target |-> FALSE, has_response |-> TRUE, body |-> "page",
              items |-> << ItemAb >> ]
CaptureRequests == { PageAb, PagePair, PageLate, Garbage, OtherJson, OtherUrl }

\* One process runs batches without downloading; the browser makes requests
\* at any time of a capture, responses may come late, and the user stops the
\* capture at any time.
NextCapture ==
    \/ StartBatch(1, BatchNames, {FALSE})
    \/ LoopTop(1)
    \/ EnterJob(1)
    \/ Deliver(1, CaptureRequests, FALSE)
    \/ Respond(1)
    \/ CapturePoll(1)
    \/ StopCapture(1, FALSE)
    \/ EndCapture(1)
    \/ DownloadTop(1)
    \/ SaveSongs(1)
    \/ SavePlaylists(1)
    \/ SaveMapping(1)
    \/ AfterJob(1)

SpecCapture == Init /\ [][NextCapture]_vars

\* One process runs batches without downloading, and a job may raise at any
\* point of its try block.
NextFail ==
    \/ StartBatch(1, PlaylistNames, {FALSE})
    \/ LoopTop(1)
    \/ EnterJob(1)
    \/ Deliver(1, BatchRequests, TRUE)
    \/ CapturePoll(1)
    \/ StopCapture(1, TRUE)
    \/ EndCapture(1)
    \/ DownloadTop(1)
    \/ SaveSongs(1)
    \/ SavePlaylists(1)
    \/ SaveMapping(1)
    \/ AfterJob(1)
    \/ JobRaises(1)

SpecFail == Init /\ [][NextFail]_vars

\* One process at a time runs batches without downloading, and the file of a
\* catalog table may be damaged at any point.
CatalogTables == { "songs", "playlists", "mapping" }

NextCorrupt ==
    \/ StartBatch(1, BatchNames, {FALSE})
    \/ LoopTop(1)
    \/ EnterJob(1)
    \/ Deliver(1, BatchRequests, TRUE)
    \/ CapturePoll(1)
    \/ StopCapture(1, TRUE)
    \/ EndCapture(1)
    \/ DownloadTop(1)
    \/ SaveSongs(1)
    \/ SavePlaylists(1)
    \/ SaveMapping(1)
    \/ AfterJob(1)
    \/ Corrupt(CatalogTables)

SpecCorrupt == Init /\ [][NextCorrupt]_vars

\* The same, over pages of two records that have one URI and two names.
IndexItems == { ItemAbU1, ItemCU1 }

IndexRequests == { PageOf(<<item>>) : item \in IndexItems }

NextIndex ==
    \/ StartBatch(1, BatchNames, {FALSE})
    \/ LoopTop(1)
    \/ EnterJob(1)
    \/ Deliver(1, IndexRequests, TRUE)
    \/ CapturePoll(1)
    \/ StopCapture(1, TRUE)
    \/ EndCapture(1)
    \/ DownloadTop(1)
    \/ SaveSongs(1)
    \/ SavePlaylists(1)
    \/ SaveMapping(1)
    \/ AfterJob(1)
    \/ Corrupt(CatalogTables)

SpecIndex == Init /\ [][NextIndex]_vars

\* One process runs batches without downloading; the capture thread of a
\* job works in passes that begin and end at any time
NextThreads ==
    \/ StartBatch(1, BatchNames, {FALSE})
    \/ LoopTop(1)
    \/ EnterJob(1)
    \/ Deliver(1, BatchRequests, FALSE)
    \/ PassBegins(1)
    \/ PassEnds(1)
    \/ StopCapture(1, FALSE)
    \/ EndCapture(1)
    \/ DownloadTop(1)
    \/ SaveSongs(1)
    \/ SavePlaylists(1)
    \/ SaveMapping(1)
    \/ AfterJob(1)

SpecThreads == Init /\ [][NextThreads]_vars

\* Two processes run the artist discography script, their steps interleaved.
ItemAspB == RawItem(<<"a", " ", "b">>, << <<"x">> >>, "")
ItemCk == RawItem(<<"c">>, << <<"k">> >>, "")

ArtistItems == { ItemAb, ItemAspB, ItemCk }

ArtistPages == { PageOf(<<item>>) : item \in ArtistItems }

NextArtist ==
    \E s \in Procs :
        \/ ArtistStart(s)
        \/ ArtistResponse(s, ArtistPages)
        \/ ArtistStop(s)
        \/ ArtistLoad(s)
        \/ ArtistProcess(s)
        \/ ArtistDownloads(s)

SpecArtist == Init /\ [][NextArtist]_vars

\* ------------------------------------------------------------ properties
\* the song tables there are: the one on disk and the one of each process
SongTables == { songs_db } \cup { mgr[s].existing_songs : s \in Procs }

\* the ids and the membership lists of a songs table
Memberships(songs) == { << songs[i].song_id, songs[i].playlists >> : i \in DOMAIN songs }

\* no id is the key of two entries
UniqueIds(songs) == \A i, j \in DOMAIN songs : songs[i].song_id = songs[j].song_id => i = j

NoDuplicates(seq) == \A i, j \in DOMAIN seq : seq[i] = seq[j] => i = j

\* a job that was saved ingested the track of the item into the playlist
Ingested(item, playlist_name) ==
    \E t \in ingested : t[1] = PreliminaryTrackInfo(item) /\ t[2] = playlist_name

\* the last two jobs saved had the same playlist name and the same captured
\* stream, and both ran their loop over every track
SameJobTwice ==
    /\ Len(last_jobs) = 2
    /\ last_jobs[1].name = last_jobs[2].name
    /\ last_jobs[1].items = last_jobs[2].items
    /\ last_jobs[1].complete /\ last_jobs[2].complete

\* C1: when the pipeline has run a second time over the stream and the
\* playlist name of the run before it, the songs table on disk has the same
\* song ids, each once, and every song the same membership list as after the
\* first run.
C1_IdempotentRecapture ==
    SameJobTwice =>
        /\ Memberships(last_jobs[2].songs) = Memberships(last_jobs[1].songs)
        /\ Len(last_jobs[2].songs) = Len(last_jobs[1].songs)
        /\ UniqueIds(last_jobs[2].songs)

\* a stream of two records of one URI and a record without URI was run twice
C1_Witness ==
    /\ SameJobTwice
    /\ last_jobs[2].items = << ItemAbU1, ItemCU1, ItemABsp >>
    /\ Len(last_jobs[2].songs) = 2

\* what the normaliser takes as the id of an item, given the song manager
Resolve(m, item) == TrackInfo(item, m).song_id

\* C2: once a URI is registered under a song id in the lookup table of a
\* process, a record that carries this URI resolves to that id from then on,
\* whatever its name.
C2_UriOverride ==
    [][ \A s \in Procs : \A item \in CatalogItems :
          ( /\ item.uri # ""
            /\ item.uri \in DOMAIN mgr[s].uri_to_song_id
            /\ pc'[s] # "off" )
          => Resolve(mgr'[s], item) = mgr[s].uri_to_song_id[item.uri] ]_vars

\* the records without URI asked about: those of the pages, and one that no
\* page holds
ItemAB == RawItem(<<" ", "A", "B">>, << <<"X">> >>, "")
NoUriRecords == { ItemAb, ItemABsp, ItemAB }

SameNameKey(a, b) ==
    LET pa == PreliminaryTrackInfo(a)
        pb == PreliminaryTrackInfo(b)
    IN  NameArtistKey(pa.track_name, pa.artists_string)
            = NameArtistKey(pb.track_name, pb.artists_string)

\* one record for all the records of the same key
KeyRepresentative(a) == CHOOSE b \in NoUriRecords : SameNameKey(a, b)

\* C3: a record without URI resolves, in every state of a running process,
\* to the id that the representative of the records of its lower-cased,
\* trimmed name and artists resolves to on the empty catalog; so two such
\* records resolve to the same id, whatever the catalog holds and whatever
\* happens between the two resolutions.
C3_NameKeyDeterminism ==
    \A s \in Procs :
        pc[s] # "off" =>
          \A a \in NoUriRecords :
            Resolve(mgr[s], a) = Resolve(EmptyManager, KeyRepresentative(a))

\* a process holds the key of the two records in its table, found for one
\* and for the other, after jobs that ingested both were saved
C3_Witness ==
    /\ Ingested(ItemAb, "P1")
    /\ Ingested(ItemABsp, "P2")
    /\ \E s \in Procs :
         /\ pc[s] = "returned"
         /\ find_existing_song(mgr[s], PreliminaryTrackInfo(ItemAB)) # NoSong

\* C4: in the tracks a job resolved, a track that carries the URI of an
\* earlier track for which the id was minted has the id of that track.
C4_MintRegistersAtOnce ==
    \A s \in Procs : \A i, j \in DOMAIN job[s].tracks :
        ( /\ i < j
          /\ ~job[s].tracks[i].skip_download
          /\ job[s].tracks[i].track_uri # ""
          /\ job[s].tracks[j].track_uri = job[s].tracks[i].track_uri )
        => job[s].tracks[j].song_id = job[s].tracks[i].song_id

\* C5: no membership list of a song holds a playlist twice.
C5_NoDuplicateMembership ==
    \A songs \in SongTables : \A i \in DOMAIN songs : NoDuplicates(songs[i].playlists)

\* the download loop added one song to the playlist of the job twice
C5_Witness ==
    \E s \in Procs :
        /\ pc[s] = "download"
        /\ job[s].pos = 3
        /\ job[s].tracks[1].song_id = job[s].tracks[2].song_id
        /\ \E i \in DOMAIN mgr[s].existing_songs :
             /\ mgr[s].existing_songs[i].song_id = job[s].tracks[1].song_id
             /\ mgr[s].existing_songs[i].playlists = << job[s].playlist_name >>

\* C6: when jobs that were saved ingested a track into P1 and into P2 and no
\* process runs, the two jobs took the track for one song, the songs table on
\* disk has one entry of that id, and the membership list of the entry holds
\* P1 and P2.
C6_CrossPlaylistMerge ==
    \A t1, t2 \in ingested :
        ( /\ t1[1] = t2[1] /\ t1[2] = "P1" /\ t2[2] = "P2"
          /\ \A s \in Procs : pc[s] = "off" )
        => /\ t1[3] = t2[3]
           /\ Cardinality({ i \in DOMAIN songs_db : songs_db[i].song_id = t1[3] }) = 1
           /\ InSeq("P1", GetSong(songs_db, t1[3]).playlists)
           /\ InSeq("P2", GetSong(songs_db, t1[3]).playlists)

\* an item that is a track and whose name is empty
HasEmptyName(item) == item.typename = TrackWrapper /\ Strip(item.name) = <<>>

IsTrackEmptyEntry(entry) == entry.reason = ReasonTrackEmpty

\* C7: an item whose name is empty is not among the tracks the normaliser
\* returns, no song of any songs table has an empty name, the song list of
\* every playlist holds ids of songs of the table only, and once the items
\* of a job are normalised the skip log of the job has one entry with the
\* reason "Track name is empty or too short" for each such item.
C7_RejectedNeverEnters ==
    /\ \A s \in Procs : \A k \in DOMAIN job[s].tracks :
         Strip(job[s].tracks[k].track_name) # <<>>
    /\ \A songs \in SongTables : \A i \in DOMAIN songs :
         Strip(songs[i].metadata.track_name) # <<>>
    /\ \A name \in DOMAIN playlists_db : \A k \in DOMAIN playlists_db[name].songs :
         HasSong(songs_db, playlists_db[name].songs[k])
    /\ \A s \in Procs :
         pc[s] # "capture" =>
           Len(SelectSeq(skipped_log[s], IsTrackEmptyEntry))
             = Len(SelectSeq(glob[s].all_playlist_items, HasEmptyName))

\* a job whose page held two items without name and a track between them
\* was saved
C7_Witness ==
    \E s \in Procs :
        /\ pc[s] = "returned"
        /\ glob[s].all_playlist_items = << ItemEmpty, ItemAb, ItemBlank >>
        /\ Len(skipped_log[s]) = 2
        /\ Len(songs_db) = 1
        /\ "P1" \in DOMAIN playlists_db

\* the index (0-based, as the cursor) of the first pending job of a batch, or
\* the number of jobs when none is pending
FirstPending(b) ==
    LET pending == { k \in DOMAIN b.playlists : b.playlists[k].status = "pending" }
    IN  IF pending = {} THEN Len(b.playlists)
        ELSE (CHOOSE k \in pending : \A m \in pending : k <= m) - 1

\* where a process is while process_single_playlist runs or has just returned
InJob == { "enter", "capture", "download", "dl_start", "dl_attempt", "dl_fetch",
           "phase4", "save_playlists", "save_mapping", "returned" }

\* C8: while a process runs a batch the batch file holds the job list and the
\* cursor of the batch in memory; the job a process works on is pending in
\* the batch file, so no job the file has as completed or failed is
\* processed again; and the cursor a process loads from the batch file is the
\* index of the first pending job.
C8_BatchResume ==
    /\ \A s \in Procs :
         (pc[s] # "off" /\ run[s].mode = "batch") =>
           batch_file = save_batch_file(batch[s])
    /\ \A s \in Procs :
         (pc[s] \in InJob /\ run[s].mode = "batch") =>
           /\ run[s].i < Len(batch_file.playlists)
           /\ batch_file.playlists[run[s].i + 1].status = "pending"
    /\ load_batch_file(batch_file).current_playlist_index
         = FirstPending(load_batch_file(batch_file))

\* a process killed after the second job of its batch was saved and before
\* the job was marked: the process started after it works on that job again
C8_Witness ==
    /\ created = 2
    /\ Len(last_jobs) = 2
    /\ Len(batch_file.playlists) = 2
    /\ batch_file.playlists[1].status = "completed"
    /\ batch_file.playlists[2].status = "pending"
    /\ pc[1] = "capture"
    /\ run[1].i = 1

\* the download loop of the job was left by a break
LoopBroken(s) ==
    /\ pc[s] \in { "phase4", "save_playlists", "save_mapping", "returned" }
    /\ job[s].tracks # <<>>
    /\ ~LoopComplete(job[s])

C10_SessionsConverge ==
    (\A s \in Procs : pc[s] = "off") =>
        \A t \in ingested :
            /\ HasSong(songs_db, t[3])
            /\ InSeq(t[2], GetSong(songs_db, t[3]).playlists)

\* the mapping has playlist P for an id exactly when the songs table has a
\* song of the id whose membership list holds P
MappingConsistent(mapping, songs) ==
    /\ \A id \in DOMAIN mapping : \A k \in DOMAIN mapping[id] :
         /\ HasSong(songs, id)
         /\ InSeq(mapping[id][k], GetSong(songs, id).playlists)
    /\ \A i \in DOMAIN songs : \A k \in DOMAIN songs[i].playlists :
         /\ songs[i].song_id \in DOMAIN mapping
         /\ InSeq(songs[i].playlists[k], mapping[songs[i].song_id])

\* C11: after every save (the step that writes the mapping, the last of the
\* three tables), the mapping on disk has playlist P for a song id if and
\* only if the song of that id in the songs table on disk has P in its
\* membership list.
C11_MappingConsistent ==
    [][ \A s \in Procs :
          (pc[s] = "save_mapping" /\ pc'[s] = "returned")
          => MappingConsistent(mapping_db', songs_db') ]_vars

\* the ids of a songs table
SongIds(songs) == { songs[i].song_id : i \in DOMAIN songs }

\* C12: no step removes a song id from the songs table on disk; the step of
\* fullupdate.py that writes the table writes the union of the table on disk
\* and the table in memory, each id once: every song in memory as it is in
\* memory, and every song on disk whose id is not in memory as it was on disk.
C12_SongsNeverDeleted ==
    [][ /\ SongIds(songs_db) \subseteq SongIds(songs_db')
        /\ \A s \in Procs :
             (pc[s] = "phase4" /\ pc'[s] = "save_playlists") =>
               /\ SongIds(songs_db') = SongIds(songs_db) \cup SongIds(mgr[s].existing_songs)
               /\ UniqueIds(songs_db')
               /\ \A k \in DOMAIN mgr[s].existing_songs :
                    InSeq(mgr[s].existing_songs[k], songs_db')
               /\ \A i \in DOMAIN songs_db :
                    ~HasSong(mgr[s].existing_songs, songs_db[i].song_id)
                    => InSeq(songs_db[i], songs_db') ]_vars

\* the ordered list of member song ids of a playlist entry (the field is
\* 'songs' in fullupdate.py and 'song_ids' in Artistscrapper.py)
PlaylistSongIds(entry) ==
    IF "song_ids" \in DOMAIN entry THEN entry.song_ids ELSE entry.songs

\* C13: no playlist of the playlists table, and no list of member songs that
\* a running job builds, holds a song id twice.
C13_NoDuplicateSongsInPlaylist ==
    /\ \A id \in DOMAIN playlists_db : NoDuplicates(PlaylistSongIds(playlists_db[id]))
    /\ \A s \in Procs : NoDuplicates(job[s].playlist_songs)

\* the sequence a is the beginning of the sequence b
IsPrefix(a, b) == Len(a) <= Len(b) /\ SubSeq(b, 1, Len(a)) = a

\* C14: while a process runs, no step takes a song out of the songs table it
\* holds in memory, and every song of the table keeps the playlists of its
\* membership list, in their order: a step only appends to the list.
C14_MembershipOnlyGrows ==
    [][ \A s \in Procs :
          (pc[s] # "off" /\ pc'[s] # "off") =>
            \A i \in DOMAIN mgr[s].existing_songs :
              LET song == mgr[s].existing_songs[i]
              IN  /\ HasSong(mgr'[s].existing_songs, song.song_id)
                  /\ IsPrefix(song.playlists,
                              GetSong(mgr'[s].existing_songs, song.song_id).playlists) ]_vars

\* the songs of the table `before` are in the table `after`, at their
\* places, with the id, the metadata and the download status they had
SnapshotsKept(before, after) ==
    \A i \in DOMAIN before :
        /\ i \in DOMAIN after
        /\ [ after[i] EXCEPT !.playlists = before[i].playlists ] = before[i]

\* C15: a step of a running process leaves every song of the table in memory
\* as it was, but for its membership list, and so does a step on the table on
\* disk: a record that resolves to a stored song, whatever its name and
\* artists, changes nothing of the song but the membership list.
C15_FirstSeenSnapshotKept ==
    [][ /\ \A s \in Procs :
             (pc[s] # "off" /\ pc'[s] # "off")
             => SnapshotsKept(mgr[s].existing_songs, mgr'[s].existing_songs)
        /\ SnapshotsKept(songs_db, songs_db') ]_vars

\* a job has added to its playlist a track that a URI resolved to a stored
\* song of another name: the song has the two playlists and the first name
C15_Witness ==
    \E s \in Procs : \E k \in DOMAIN job[s].tracks :
        /\ pc[s] = "phase4"
        /\ job[s].tracks[k].skip_download
        /\ HasSong(mgr[s].existing_songs, job[s].tracks[k].song_id)
        /\ LET song == GetSong(mgr[s].existing_songs, job[s].tracks[k].song_id)
           IN  /\ song.metadata.track_name # job[s].tracks[k].track_name
               /\ song.metadata.track_uri = job[s].tracks[k].track_uri
               /\ Len(song.playlists) = 2
               /\ InSeq(job[s].playlist_name, song.playlists)

\* the errors process_single_playlist returns for a cancellation by the user
CancellationErrors == { "Batch process cancelled" }

\* C16: when process_single_playlist has returned an error that is not a
\* cancellation, the batch loop records the job it called it for as failed
\* with the text of the error, writes the batch file, moves the cursor by one
\* and is at the head of its loop again; and at the head of its loop, not
\* cancelled, with a pending job ahead, it does not end: it goes to a pending
\* job or stays in the loop.
C16_JobFailureDoesNotStopBatch ==
    [][ \A s \in Procs :
          /\ ( /\ pc[s] = "returned" /\ pc'[s] # "returned"
               /\ run[s].mode = "batch"
               /\ job[s].result.error \notin { "" } \cup CancellationErrors )
             => LET k == run[s].i + 1
                IN  /\ pc'[s] = "loop"
                    /\ run'[s].i = run[s].i + 1
                    /\ batch'[s].current_playlist_index =
                           batch[s].current_playlist_index + 1
                    /\ DOMAIN batch'[s].playlists = DOMAIN batch[s].playlists
                    /\ batch'[s].playlists[k].name = job[s].playlist_name
                    /\ batch'[s].playlists[k].status = "failed"
                    /\ batch'[s].playlists[k].error = job[s].result.error
                    /\ \A n \in DOMAIN batch[s].playlists \ {k} :
                           batch'[s].playlists[n] = batch[s].playlists[n]
                    /\ batch_file' = save_batch_file(batch'[s])
          /\ ( /\ pc[s] = "loop" /\ ~controller[s].cancelled
               /\ \E n \in DOMAIN batch[s].playlists :
                      n > run[s].i /\ batch[s].playlists[n].status = "pending" )
             => /\ pc'[s] \in { "loop", "enter" }
                /\ pc'[s] = "enter" =>
                      /\ run'[s].i = run[s].i
                      /\ batch[s].playlists[run[s].i + 1].status = "pending" ]_vars

\* the first job of a batch raised and is recorded as failed with the text
\* of the error, and the batch is capturing its second job
C16_Witness ==
    \E s \in Procs :
        /\ pc[s] = "capture" /\ run[s].mode = "batch" /\ run[s].i = 1
        /\ batch_file.exists /\ batch_file.current_index = 1
        /\ batch_file.playlists[1].status = "failed"
        /\ batch_file.playlists[1].error = ErrorProcessing
        /\ batch_file.playlists[2].status = "pending"
        /\ job[s].playlist_name = batch_file.playlists[2].name

\* C17: with the file of a catalog table unreadable, the load at the start of
\* a run gives the empty song manager and the run goes on; each of the three
\* writes of save_consolidated_metadata takes the unreadable table for an
\* empty one, writes, and goes on to the next; the songs table written holds
\* every song of the session, and the job returns without an error.
C17_UnreadableTableNotFatal ==
    [][ \A s \in Procs :
          /\ (pc[s] = "off" /\ pc'[s] = "loop" /\ "songs" \in unreadable)
             => mgr'[s] = EmptyManager
          /\ (pc[s] = "phase4" /\ "songs" \in unreadable /\ pc'[s] # pc[s])
             => /\ pc'[s] = "save_playlists"
                /\ songs_db' = mgr[s].existing_songs
                /\ \A k \in 1 .. (job[s].pos - 1) :
                       HasSong(songs_db', job[s].tracks[k].song_id)
          /\ (pc[s] = "save_playlists" /\ "playlists" \in unreadable /\ pc'[s] # pc[s])
             => /\ pc'[s] = "save_mapping"
                /\ DOMAIN playlists_db' = { job[s].playlist_name }
                /\ playlists_db'[job[s].playlist_name].songs = job[s].playlist_songs
          /\ (pc[s] = "save_mapping" /\ "mapping" \in unreadable /\ pc'[s] # pc[s])
             => /\ pc'[s] = "returned"
                /\ job'[s].result.error = ""
                /\ DOMAIN mapping_db' =
                      { songs_db[i].song_id :
                          i \in { j \in DOMAIN songs_db : songs_db[j].playlists # <<>> } }
                /\ \A id \in DOMAIN mapping_db' :
                       mapping_db'[id] = GetSong(songs_db, id).playlists ]_vars

\* a job has returned without an error and the songs table holds its songs,
\* but not a song it held after the job before: the run of the job found the
\* file of the table unreadable and started from an empty table
C17_Witness ==
    \E s \in Procs :
        /\ pc[s] = "returned" /\ job[s].result.error = ""
        /\ job[s].tracks # <<>>
        /\ \A k \in DOMAIN job[s].tracks : HasSong(songs_db, job[s].tracks[k].song_id)
        /\ Len(last_jobs) = 2
        /\ \E i \in DOMAIN last_jobs[1].songs :
               ~HasSong(songs_db, last_jobs[1].songs[i].song_id)
        /\ unreadable = {}

\* the items a request brings to the buffer when the capture processes it
PageItems(request) ==
    IF request.url_target /\ request.has_response /\ request.body = "page"
    THEN request.items ELSE <<>>

\* the places of the item x in the pages of the requests `ids`
PlacesIn(requests, ids, x) ==
    UNION { { << id, k >> : k \in { n \in DOMAIN PageItems(requests[id]) :
                                       PageItems(requests[id])[n] = x } } : id \in ids }

\* the places of the item x in a sequence of items
PlacesOf(items, x) == { k \in DOMAIN items : items[k] = x }

\* C18: during a capture the buffer holds each item as many times as the
\* pages of the requests in seen_requests hold it, whatever the number of
\* passes made over the list of requests: a request seen gave its items
\* once, and no request was processed twice.
C18_CaptureAtMostOnce ==
    \A s \in Procs : pc[s] = "capture" =>
        /\ glob[s].seen_requests \subseteq DOMAIN driver[s]
        /\ NoDuplicates(glob[s].seen_order)
        /\ \A x \in { glob[s].all_playlist_items[k] :
                         k \in DOMAIN glob[s].all_playlist_items }
                   \cup UNION { { PageItems(driver[s][id])[k] :
                                    k \in DOMAIN PageItems(driver[s][id]) } :
                                id \in glob[s].seen_requests } :
               Cardinality(PlacesOf(glob[s].all_playlist_items, x)) =
               Cardinality(PlacesIn(driver[s], glob[s].seen_requests, x))

\* the second request was processed in one pass and the first, whose
\* response came late, in a later pass that saw the second again; the
\* buffer holds the item of each once
C18_Witness ==
    \E s \in Procs :
        /\ pc[s] = "capture"
        /\ Len(driver[s]) = 2
        /\ driver[s][2] = PageAb
        /\ driver[s][1] = PageOf(<< ItemAb >>)
        /\ glob[s].seen_order = << 2, 1 >>
        /\ glob[s].all_playlist_items = << ItemAb, ItemAb >>

\* the requests of the list a pass of the capture processes
Unseen(requests, seen) ==
    { id \in DOMAIN requests :
        /\ requests[id].url_target /\ requests[id].has_response
        /\ id \notin seen }

\* the body of the response did not decode, or did not parse
Undecodable(request) == request.body = "garbage"

\* C19: a pass of the capture that processes requests leaves the capture
\* running; every request it processes whose body does not decode or parse
\* is in seen_requests after it, and when it processes no other request the
\* buffer is as it was; seen_requests loses no request during the capture,
\* so that no later pass processes the request again.
C19_UndecodableDropped ==
    [][ \A s \in Procs : pc[s] = "capture" =>
          /\ pc'[s] = "capture" => glob[s].seen_requests \subseteq glob'[s].seen_requests
          /\ glob'[s].seen_order # glob[s].seen_order
             => LET new == Unseen(driver[s], glob[s].seen_requests)
                IN  /\ pc'[s] = "capture"
                    /\ glob'[s].stop_capture = glob[s].stop_capture
                    /\ \A id \in new :
                          Undecodable(driver[s][id]) =>
                             /\ id \in glob'[s].seen_requests
                             /\ Cardinality({ k \in DOMAIN glob'[s].seen_order :
                                                glob'[s].seen_order[k] = id }) = 1
                    /\ (\A id \in new : Undecodable(driver[s][id]))
                          => glob'[s].all_playlist_items = glob[s].all_playlist_items
        ]_vars

\* a response that does not decode was processed in one pass, and a later
\* pass, which saw it again, processed the page whose response came late:
\* the buffer holds the item of the page and nothing else
C19_Witness ==
    \E s \in Procs :
        /\ pc[s] = "capture" /\ ~glob[s].stop_capture
        /\ Len(driver[s]) = 2
        /\ driver[s][1] = PageOf(<< ItemAb >>)
        /\ driver[s][2] = Garbage
        /\ glob[s].seen_order = << 2, 1 >>
        /\ glob[s].seen_requests = { 1, 2 }
        /\ glob[s].all_playlist_items = << ItemAb >>

RECURSIVE PagesInListOrder(_, _, _)
\* the items of the pages of the requests `ids`, in the order of the list
PagesInListOrder(requests, ids, id) ==
    IF id > Len(requests) THEN <<>>
    ELSE (IF id \in ids THEN PageItems(requests[id]) ELSE <<>>)
         \o PagesInListOrder(requests, ids, id + 1)

\* C20: a pass of the capture appends to the buffer the pages of the
\* requests it finds with a response and not yet seen, in the order of the
\* list of requests and each with its items in the order of the page,
\* whatever the pages collected before hold; no other step of a capture
\* changes the buffer.
C20_BufferOrder ==
    [][ \A s \in Procs : (pc[s] = "capture" /\ pc'[s] = "capture") =>
          IF glob'[s].seen_order # glob[s].seen_order
          THEN LET new == Unseen(driver[s], glob[s].seen_requests)
               IN  /\ glob'[s].seen_requests = glob[s].seen_requests \cup new
                   /\ glob'[s].all_playlist_items =
                        glob[s].all_playlist_items
                        \o PagesInListOrder(driver[s], new, 1)
          ELSE glob'[s].all_playlist_items = glob[s].all_playlist_items ]_vars

\* the page of two items was processed first and the page made before it,
\* whose response came late and which holds one of the two items again,
\* after it: the buffer holds the two pages in that order
C20_Witness ==
    \E s \in Procs :
        /\ pc[s] = "capture"
        /\ Len(driver[s]) = 2
        /\ driver[s][1] = PageOf(<< ItemAb >>)
        /\ driver[s][2] = PagePair
        /\ glob[s].seen_order = << 2, 1 >>
        /\ glob[s].all_playlist_items = << ItemCU1, ItemAb, ItemAb >>

\* the performer names of an item that are not blank
PerformerNames(item) ==
    SelectSeq([ i \in DOMAIN item.artists |-> Strip(item.artists[i]) ],
              LAMBDA n : n # <<>>)

\* the item is rejected according to the rule: its name is empty, its
\* performer string is empty, or one of the two is a placeholder value
RuleRejects(item) ==
    LET name == Lower(Strip(item.name))
        performers == Lower(ArtistsString(item.artists))
    IN  \/ name = <<>>
        \/ performers = <<>>
        \/ name \in { Lower(NameUnknown), Lower(NameUnknown \o <<" ","t","r","a","c","k">>) }
        \/ performers \in { Lower(NameUnknown), Lower(UnknownArtist) }

IsTrackItem(item) == item.typename = TrackWrapper
RejectedByRule(item) == IsTrackItem(item) /\ RuleRejects(item)
AcceptedByRule(item) == IsTrackItem(item) /\ ~RuleRejects(item)

\* C21: once the items of a job are normalised, the tracks of the job are
\* the track items of the buffer the rule does not reject, in their order, and
\* the skip log has one entry for each track item the rule rejects, in their
\* order; an item without a performer name has the performer string
\* "Unknown Artist" and is among the rejected.
C21_ValidationGate ==
    \A s \in Procs :
        pc[s] \in { "download", "dl_start", "dl_attempt", "dl_fetch", "phase4",
                    "save_playlists", "save_mapping", "returned" } =>
          LET items == glob[s].all_playlist_items
              accepted == SelectSeq(items, AcceptedByRule)
              rejected == SelectSeq(items, RejectedByRule)
          IN  /\ Len(job[s].tracks) = Len(accepted)
              /\ \A k \in DOMAIN accepted :
                    /\ job[s].tracks[k].track_name = Strip(accepted[k].name)
                    /\ job[s].tracks[k].artists_string = ArtistsString(accepted[k].artists)
              /\ Len(skipped_log[s]) = Len(rejected)
              /\ \A k \in DOMAIN rejected :
                    /\ skipped_log[s][k].track_name = Strip(rejected[k].name)
                    /\ skipped_log[s][k].artists_string = ArtistsString(rejected[k].artists)
              /\ \A k \in DOMAIN items :
                    (IsTrackItem(items[k]) /\ PerformerNames(items[k]) = <<>>)
                    => /\ ArtistsString(items[k].artists) = UnknownArtist
                       /\ RejectedByRule(items[k])

\* a job normalised a track whose name is " UNKNOWN TRACK", a track whose
\* performers are "Unknown" and "x", and a track whose performer names are
\* blank
C21_Witness ==
    \E s \in Procs :
        /\ pc[s] = "download"
        /\ glob[s].all_playlist_items =
             << ItemUnknownTrack, ItemArtistUnknownAndX, ItemBlankArtist >>
        /\ Len(job[s].tracks) = 1
        /\ Len(skipped_log[s]) = 2
        /\ skipped_log[s][1].reason = ReasonTrackPlaceholder
        /\ skipped_log[s][2].reason = ReasonArtistPlaceholder

\* the jobs of a list whose status is not the one they have in another list
Transitions(before, after) ==
    { k \in DOMAIN before : after[k].status # before[k].status }

\* one step of the job list and the cursor: the jobs are the same jobs, a
\* status changes only from pending to completed or failed, and the cursor
\* moves forward by the number of jobs whose status changed, one at most,
\* within the list
JobStep(before, cursor, after, cursor_after) ==
    /\ DOMAIN after = DOMAIN before
    /\ \A k \in DOMAIN before : after[k].name = before[k].name
    /\ \A k \in Transitions(before, after) :
          /\ before[k].status = "pending"
          /\ after[k].status \in { "completed", "failed" }
    /\ Cardinality(Transitions(before, after)) <= 1
    /\ cursor_after = cursor + Cardinality(Transitions(before, after))
    /\ cursor_after <= Len(after)

\* C22: while a process runs a batch, every step of the job list and the
\* cursor it holds, and every step of the batch file, is such a step: a job
\* that is completed or failed stays as it is, and the cursor never goes
\* back, moves by one with each job that leaves pending, and is never more
\* than the number of jobs.
C22_JobAndCursorStateMachine ==
    [][ \A s \in Procs :
          (pc[s] # "off" /\ run[s].mode = "batch") =>
             /\ pc'[s] # "off" =>
                   JobStep(batch[s].playlists, batch[s].current_playlist_index,
                           batch'[s].playlists, batch'[s].current_playlist_index)
             /\ JobStep(batch_file.playlists, batch_file.current_index,
                        batch_file'.playlists, batch_file'.current_index) ]_vars

\* a batch of two jobs: the first job is completed, the second failed, the
\* cursor is at the end of the list and the process is at the head of its loop
C22_Witness ==
    \E s \in Procs :
        /\ pc[s] = "loop"
        /\ Len(batch[s].playlists) = 2
        /\ batch[s].playlists[1].status = "completed"
        /\ batch[s].playlists[2].status = "failed"
        /\ batch[s].current_playlist_index = 2
        /\ batch_file = save_batch_file(batch[s])

\* the jobs before the cursor are completed or failed, the jobs at the cursor
\* and after it are pending, and the cursor is within the list
CursorSplitsJobs(playlists, cursor) ==
    /\ cursor \in 0 .. Len(playlists)
    /\ \A k \in DOMAIN playlists :
          IF k <= cursor THEN playlists[k].status \in { "completed", "failed" }
          ELSE playlists[k].status = "pending"

\* C26: the cursor splits the job list of the batch file, and of every
\* process that runs a batch, into the jobs processed and the pending jobs;
\* while process_single_playlist runs for a job, and when it has returned,
\* the job is the one at the cursor, which mark_playlist_completed updates.
C26_CursorStatusInvariant ==
    /\ batch_file.exists =>
          CursorSplitsJobs(batch_file.playlists, batch_file.current_index)
    /\ \A s \in Procs :
          (pc[s] # "off" /\ run[s].mode = "batch") =>
             /\ CursorSplitsJobs(batch[s].playlists, batch[s].current_playlist_index)
             /\ pc[s] \in InJob =>
                   /\ run[s].i = batch[s].current_playlist_index
                   /\ run[s].i < Len(batch[s].playlists)
                   /\ batch[s].playlists[run[s].i + 1].name = CurrentPlaylistName(s)
                   /\ pc[s] # "enter" =>
                         job[s].playlist_name = batch[s].playlists[run[s].i + 1].name

\* the second job of a batch has returned and is not marked yet: the first
\* job is failed, the second pending and at the cursor
C26_Witness ==
    \E s \in Procs :
        /\ pc[s] = "returned" /\ run[s].mode = "batch"
        /\ Len(batch[s].playlists) = 2
        /\ batch[s].current_playlist_index = 1 /\ run[s].i = 1
        /\ batch[s].playlists[1].status = "failed"
        /\ batch[s].playlists[2].status = "pending"

\* the places of search_and_download_audio_smart where check_pause is called
InDownload == { "dl_start", "dl_attempt", "dl_fetch" }

\* the next step of the worker of s is a call of check_pause: in the batch
\* loop before a pending job, in the download loop before a track, or in
\* search_and_download_audio_smart
AtCheckPause(s) ==
    \/ /\ pc[s] = "loop" /\ run[s].mode = "batch"
       /\ ~is_cancelled(controller[s])
       /\ run[s].i < Len(batch[s].playlists)
       /\ batch[s].playlists[run[s].i + 1].status = "pending"
    \/ /\ pc[s] = "download"
       /\ ~is_cancelled(controller[s])
       /\ job[s].pos <= Len(job[s].tracks)
    \/ pc[s] \in InDownload

\* the worker of s takes a step
WorkerMoves(s) == pc'[s] # pc[s] \/ job'[s] # job[s]

\* the last result of the download log of a job
LastStatus(j) == j.download_log[Len(j.download_log)].status

\* C23: a worker that is at a call of check_pause while the controller is
\* paused and not cancelled takes no step; the step it takes from a call
\* of check_pause is the one for False when the controller is cancelled
\* (the download in hand gets the result 'cancelled') and the one for True
\* when it is not (the batch loop enters the job, the download loop and
\* the download go on); and a worker at a call of check_pause in a
\* download of the process that runs, with the controller not paused or
\* cancelled, leaves the call unless the controller is paused again.
C23_PauseBlocks ==
    /\ [][ \A s \in Procs : AtCheckPause(s) =>
              /\ (controller[s].paused /\ ~controller[s].cancelled)
                 => /\ ~WorkerMoves(s)
                    /\ mgr'[s] = mgr[s] /\ batch'[s] = batch[s] /\ run'[s] = run[s]
              /\ (WorkerMoves(s) /\ pc[s] \in InDownload /\ controller[s].cancelled)
                 => /\ pc'[s] = "phase4"
                    /\ Len(job'[s].download_log) = Len(job[s].download_log) + 1
                    /\ LastStatus(job'[s]) = "cancelled"
              /\ (WorkerMoves(s) /\ pc[s] \in InDownload /\ ~controller[s].cancelled)
                 => \/ pc'[s] \in InDownload /\ job'[s].download_log = job[s].download_log
                    \/ /\ pc'[s] = "download"
                       /\ Len(job'[s].download_log) = Len(job[s].download_log) + 1
                       /\ LastStatus(job'[s]) \in { "success", "failed" }
              /\ (WorkerMoves(s) /\ pc[s] = "download")
                 => pc'[s] \in { "download", "dl_start" }
              /\ (WorkerMoves(s) /\ pc[s] = "loop")
                 => pc'[s] \in { "enter", "loop" } ]_vars
    /\ \A p \in InDownload :
          (pc[1] = p /\ ~(controller[1].paused /\ ~controller[1].cancelled))
          ~> (pc[1] # p \/ (controller[1].paused /\ ~controller[1].cancelled))

\* the user typed 'pause' and then 'cancel' during the download of the
\* first track of a job: check_pause returned False, and the track has the
\* result 'cancelled'
C23_Witness ==
    \E s \in Procs :
        /\ pc[s] = "phase4"
        /\ controller[s].paused /\ controller[s].cancelled
        /\ Len(job[s].download_log) = 1
        /\ LastStatus(job[s]) = "cancelled"

\* the states of a DownloadController
Controllers == [ paused : BOOLEAN, cancelled : BOOLEAN ]

\* C24: pause, resume and cancel leave a cancelled controller cancelled, and
\* check_pause on it does not wait and returns False; the controller of a
\* process that runs stays cancelled; and once it is cancelled the download
\* loop goes to no other track, no search and no download is started, the
\* download log gets no result but 'cancelled', and the batch loop enters no
\* job and starts no capture.
C24_CancelIsTerminal ==
    [][ /\ \A c \in Controllers :
             c.cancelled =>
                /\ pause(c).cancelled /\ resume(c).cancelled /\ cancel(c).cancelled
                /\ ~CheckPauseWaits(c) /\ ~check_pause(c)
                /\ ~CheckPauseWaits(pause(c)) /\ ~check_pause(resume(c))
        /\ \A s \in Procs :
             (pc[s] # "off" /\ controller[s].cancelled) =>
                /\ pc'[s] # "off" => controller'[s].cancelled
                /\ pc[s] \in InDownload \cup {"download"} =>
                      /\ job'[s].pos = job[s].pos
                      /\ job'[s].tracks = job[s].tracks
                      /\ job'[s].download_log # job[s].download_log
                         => /\ pc[s] \in InDownload
                            /\ Len(job'[s].download_log) = Len(job[s].download_log) + 1
                            /\ LastStatus(job'[s]) = "cancelled"
                /\ pc'[s] \in InDownload => (pc'[s] = pc[s] /\ job'[s] = job[s])
                /\ pc'[s] = "enter" => pc[s] = "enter"
                /\ pc'[s] = "capture" => pc[s] = "capture"
                /\ created' = created ]_vars

\* the user typed 'cancel' during the download of the first of the two
\* tracks of a job: the job has returned with one result, 'cancelled', and
\* the second track was not begun
C24_Witness ==
    \E s \in Procs :
        /\ pc[s] = "returned"
        /\ controller[s].cancelled
        /\ Len(job[s].tracks) = 2
        /\ job[s].pos = 1
        /\ Len(job[s].download_log) = 1
        /\ LastStatus(job[s]) = "cancelled"
        /\ job[s].result.cancelled_count = 1

RECURSIVE FirstAdded(_, _)
\* the distinct ids of a sequence of ids, each at its first place
FirstAdded(ids, acc) ==
    IF ids = <<>> THEN acc
    ELSE FirstAdded(Tail(ids), IF InSeq(Head(ids), acc) THEN acc
                                ELSE Append(acc, Head(ids)))

\* the song ids a job gave to add_song_to_playlist, in the order of the calls
AddedIds(j) == [ i \in 1..Len(j.download_log) |-> j.download_log[i].song_id ]

\* C25: the save of a job, on a playlists table that parses, writes under the
\* job's playlist name the record of this run, whose song list is the distinct
\* song ids the run added in the order they were first added, and keeps every
\* other entry of the table as it was.
C25_PlaylistOverwriteWithFrame ==
    [][ \A s \in Procs :
          (pc[s] = "save_playlists" /\ pc'[s] = "save_mapping"
           /\ "playlists" \notin unreadable) =>
             LET name == job[s].playlist_name
             IN  /\ DOMAIN playlists_db' = DOMAIN playlists_db \cup { name }
                 /\ playlists_db'[name] = job[s].playlist_metadata
                 /\ playlists_db'[name].name = name
                 /\ playlists_db'[name].songs = FirstAdded(AddedIds(job[s]), <<>>)
                 /\ NoDuplicates(playlists_db'[name].songs)
                 /\ \A k \in DOMAIN playlists_db \ { name } :
                        playlists_db'[k] = playlists_db[k] ]_vars

\* the job of P2 has just written the playlists table: it added the same song
\* twice, its entry lists it once, and the entry of P1 is in the table
C25_Witness ==
    /\ pc[1] = "save_mapping"
    /\ job[1].playlist_name = "P2"
    /\ Len(job[1].download_log) = 2
    /\ DOMAIN playlists_db = { "P1", "P2" }
    /\ Len(playlists_db["P2"].songs) = 1
    /\ playlists_db["P1"].songs # <<>>
    /\ playlists_db["P1"].songs # playlists_db["P2"].songs

\* save_consolidated_metadata of the job of s has written its three tables
SaveFinished(s) ==
    LET name == job[s].playlist_name
    IN  /\ last_jobs # <<>>
        /\ last_jobs[Len(last_jobs)].name = name
        /\ last_jobs[Len(last_jobs)].songs = songs_db
        /\ name \in DOMAIN playlists_db
        /\ playlists_db[name] = job[s].playlist_metadata
        /\ \A k \in DOMAIN job[s].playlist_songs :
             LET id == job[s].playlist_songs[k]
             IN  /\ HasSong(songs_db, id)
                 /\ InSeq(name, GetSong(songs_db, id).playlists)
                 /\ id \in DOMAIN mapping_db
                 /\ mapping_db[id] = GetSong(songs_db, id).playlists

\* the job of s is the job saved last, run again over the stream it had, and
\* the songs table is as that save left it
SavedBefore(s) ==
    /\ last_jobs # <<>>
    /\ "songs" \notin unreadable
    /\ LET saved == last_jobs[Len(last_jobs)]
       IN  /\ saved.songs = songs_db
           /\ saved.name = job[s].playlist_name
           /\ saved.items = glob[s].all_playlist_items
           /\ saved.complete

\* C27: the batch file gets a job as completed only from the process that
\* ran it, after the save of the job wrote the three tables; a process killed
\* after the save and before the job was marked leaves the job pending under
\* the cursor of the batch file; and when the job saved last runs again over
\* the stream it had, on the songs table its save left, as it does after such
\* a kill, its save leaves the songs table with the ids and the membership
\* lists it had.
C27_SavePrecedesTransition ==
    [][ /\ \A k \in DOMAIN batch_file.playlists \cap DOMAIN batch_file'.playlists :
             ( /\ batch_file.playlists[k].status # "completed"
               /\ batch_file'.playlists[k].status = "completed" )
             => \E s \in Procs :
                  /\ pc[s] = "returned"
                  /\ run[s].i + 1 = k
                  /\ job[s].result.error = ""
                  /\ SaveFinished(s)
        /\ \A s \in Procs :
             ( /\ pc[s] = "returned" /\ run[s].mode = "batch"
               /\ pc'[s] = "off" /\ batch_file' = batch_file )
             => /\ batch_file'.playlists[run[s].i + 1].status = "pending"
                /\ load_batch_file(batch_file').current_playlist_index = run[s].i
        /\ \A s \in Procs :
             ( /\ pc[s] = "phase4" /\ pc'[s] = "save_playlists"
               /\ SavedBefore(s) /\ LoopComplete(job[s]) )
             => /\ Memberships(songs_db') = Memberships(songs_db)
                /\ Len(songs_db') = Len(songs_db)
                /\ UniqueIds(songs_db') ]_vars

\* the one job there is was saved, the process was killed before it marked
\* the job, and the process started after it has saved the job again over
\* the same stream of two records
C27_Witness ==
    /\ created = 1
    /\ pc[1] = "returned"
    /\ SameJobTwice
    /\ Len(last_jobs[2].items) = 2
    /\ batch_file.playlists[1].status = "pending"
    /\ SaveFinished(1)

\* C28: when process_single_playlist returns to the batch loop with the
\* controller cancelled, the batch file is written with the job failed and
\* the cursor one past it; a failed job of the batch file stays as it is while
\* a process runs the batch; and the job a process works on, the process that
\* loaded the batch file after the cancellation included, is pending in the
\* batch file and not before its cursor.
C28_CancelledJobNotRerun ==
    [][ \A s \in Procs :
          /\ ( /\ pc[s] = "returned" /\ run[s].mode = "batch"
               /\ controller[s].cancelled /\ pc'[s] # "returned" )
             => /\ batch_file'.exists
                /\ batch_file'.playlists[run[s].i + 1].status = "failed"
                /\ batch_file'.playlists[run[s].i + 1].error # ""
                /\ batch_file'.current_index = run[s].i + 1
                /\ load_batch_file(batch_file').current_playlist_index = run[s].i + 1
          /\ (pc[s] # "off" /\ run[s].mode = "batch")
             => \A k \in DOMAIN batch_file.playlists :
                  batch_file.playlists[k].status = "failed"
                  => /\ k \in DOMAIN batch_file'.playlists
                     /\ batch_file'.playlists[k] = batch_file.playlists[k]
                     /\ batch_file'.current_index >= k
          /\ (pc'[s] \in InJob /\ run'[s].mode = "batch")
             => /\ batch_file'.playlists[run'[s].i + 1].status = "pending"
                /\ batch_file'.current_index <= run'[s].i ]_vars

\* the first job of a batch of two was cancelled during its download loop;
\* the process started after it continued the batch and captures for the
\* second job
C28_Witness ==
    /\ pc[1] = "capture"
    /\ ~controller[1].cancelled
    /\ run[1].i = 1
    /\ Len(batch_file.playlists) = 2
    /\ batch_file.playlists[1].status = "failed"
    /\ batch_file.playlists[1].error = "Cancelled by user"
    /\ batch_file.playlists[1].tracks_count = 2
    /\ batch_file.playlists[2].status = "pending"
    /\ batch_file.current_index = 1

\* the songs table and the playlists table agree: a song has playlist P in its
\* membership list exactly when the entry of P lists the id of the song
MembershipAgrees(songs, playlists) ==
    /\ \A i \in DOMAIN songs : \A k \in DOMAIN songs[i].playlists :
         LET P == songs[i].playlists[k]
         IN  /\ P \in DOMAIN playlists
             /\ InSeq(songs[i].song_id, PlaylistSongIds(playlists[P]))
    /\ \A P \in DOMAIN playlists : \A k \in DOMAIN PlaylistSongIds(playlists[P]) :
         LET id == PlaylistSongIds(playlists[P])[k]
         IN  /\ HasSong(songs, id)
             /\ InSeq(P, GetSong(songs, id).playlists)

\* C29: after every save (the step that writes the last of the three tables)
\* a song of the songs table on disk has playlist P in its membership list if
\* and only if the entry of P in the playlists table on disk lists the song.
C29_MembershipAgreesWithSongLists ==
    [][ \A s \in Procs :
          (pc[s] = "save_mapping" /\ pc'[s] = "returned")
          => MembershipAgrees(songs_db', playlists_db') ]_vars

\* the songs table of process s has the song `id` with the download status
\* 'success', or the download log of its job has a 'success' for the id
ObtainedBefore(s, id) ==
    \/ /\ HasSong(mgr[s].existing_songs, id)
       /\ GetSong(mgr[s].existing_songs, id).download_status = "success"
    \/ \E k \in DOMAIN job[s].download_log :
         /\ job[s].download_log[k].song_id = id
         /\ job[s].download_log[k].status = "success"

\* C30: the download loop gives a track the result 'existing' only when the
\* song of the track was stored with the download status 'success' or an
\* earlier track of the job got its audio; a track whose song has none of
\* the two goes to search_and_download_audio_smart when downloads are
\* approved.
C30_ExistingOnlyAfterSuccess ==
    [][ \A s \in Procs :
          ( /\ pc[s] = "download"
            /\ job[s].pos <= Len(job[s].tracks)
            /\ job'[s].download_log # job[s].download_log )
          => LET id == job[s].tracks[job[s].pos].song_id
             IN  /\ LastStatus(job'[s]) = "existing" => ObtainedBefore(s, id)
                 /\ (~ObtainedBefore(s, id) /\ run[s].download_approval)
                    => pc'[s] = "dl_start" ]_vars

\* the sum of the counters of the download loop of a job
CounterSum(j) ==
    j.successful_downloads + j.existing_reused + j.skipped_downloads
    + j.failed_downloads + j.cancelled_downloads

\* C31: in the result process_single_playlist returned, and in every job of
\* the batch in memory and of the batch file, success_count is at most
\* tracks_count; and the counters of the download loop of a job sum to at
\* most the number of tracks of the job.
C31_CountersBounded ==
    /\ \A s \in Procs :
         /\ pc[s] = "returned"
            => job[s].result.success_count <= job[s].result.tracks_count
         /\ pc[s] \in InJob => CounterSum(job[s]) <= Len(job[s].tracks)
         /\ \A k \in DOMAIN batch[s].playlists :
              batch[s].playlists[k].success_count <= batch[s].playlists[k].tracks_count
    /\ \A k \in DOMAIN batch_file.playlists :
         batch_file.playlists[k].success_count <= batch_file.playlists[k].tracks_count

\* every song id the two lookup tables of a song manager hold is the id of a
\* song of its songs table
IndexSound(m) ==
    /\ \A u \in DOMAIN m.uri_to_song_id : HasSong(m.existing_songs, m.uri_to_song_id[u])
    /\ \A k \in DOMAIN m.name_artist_to_song_id :
         HasSong(m.existing_songs, m.name_artist_to_song_id[k])

\* C32: in every state the lookup tables of the song manager of a process
\* hold only ids of songs of its songs table, and find_existing_song raises
\* for no record of the pages and for no track of the job: it returns None or
\* the id of a stored song.
C32_IndexesSound ==
    \A s \in Procs :
        /\ IndexSound(mgr[s])
        /\ \A item \in CatalogItems \cup NoUriRecords :
             ~FindRaises(mgr[s], PreliminaryTrackInfo(item))
        /\ \A k \in DOMAIN job[s].tracks :
             ~FindRaises(mgr[s], TrackMetadata(job[s].tracks[k]))

\* a process in its download loop holds two songs, one of them registered
\* under a URI, and the track it is at was found in the lookup tables
C32_Witness ==
    \E s \in Procs :
        /\ pc[s] = "download"
        /\ Len(mgr[s].existing_songs) = 2
        /\ DOMAIN mgr[s].uri_to_song_id # {}
        /\ Cardinality(DOMAIN mgr[s].name_artist_to_song_id) = 2
        /\ job[s].pos <= Len(job[s].tracks)
        /\ job[s].tracks[job[s].pos].skip_download
        /\ find_existing_song(mgr[s], TrackMetadata(job[s].tracks[job[s].pos]))
             = job[s].tracks[job[s].pos].song_id

RECURSIVE ItemsOfPages(_, _)
\* the items of the pages of the requests `order` of the list `requests`
ItemsOfPages(requests, order) ==
    IF order = <<>> THEN <<>>
    ELSE ItemsInResponse(requests[Head(order)]) \o ItemsOfPages(requests, Tail(order))

\* the seen-set and the buffer of a job hold requests of the job's browser
\* and the items of their pages, and nothing else
OwnCapture(g, requests) ==
    /\ g.seen_requests \subseteq DOMAIN requests
    /\ \A k \in DOMAIN g.seen_order : g.seen_order[k] \in DOMAIN requests
    /\ g.all_playlist_items = ItemsOfPages(requests, g.seen_order)

\* the stages of a job after the buffer was handed to the normalizer
Handed == { "download", "dl_start", "dl_attempt", "dl_fetch", "phase4",
            "save_playlists", "save_mapping", "returned" }

\* C33: capture isolation between jobs.  While a job captures, its seen-set
\* holds only requests of its own browser and its buffer only the items of
\* their pages, so nothing of an earlier job's capture thread is in them;
\* and once the buffer was handed to the normalizer (the job is past its
\* capture stage), the buffer and the seen-set change no more during the job.
C33_CaptureIsolation ==
    [][ \A s \in Procs :
          /\ pc'[s] = "capture" => OwnCapture(glob'[s], driver'[s])
          /\ pc[s] \in Handed /\ pc'[s] \in Handed
             => /\ glob'[s].all_playlist_items = glob[s].all_playlist_items
                /\ glob'[s].seen_requests = glob[s].seen_requests ]_vars

\* a later job's buffer holds items the capture thread of an earlier job
\* took from the earlier job's browser
C33_LaterJobHoldsEarlierItems ==
    \E s \in Procs :
        /\ pc[s] = "capture"
        /\ run[s].i > 0
        /\ driver[s] = <<>>
        /\ glob[s].all_playlist_items # <<>>
        /\ \E id \in glob[s].seen_requests : id < 0

====
